---- MODULE Spec2Model ----
(***************************************************************************)
(* CoverFlowAI backend: credit ledger (database.go), generate-cover        *)
(* request lifecycle, Redis staging of the input image, Nano Banana /      *)
(* OpenAI provider calls, and Lava Top payment creation and webhook        *)
(* (payment.go).                                                           *)
(*                                                                         *)
(* Every request handler is a process.  Each database statement            *)
(* (First / Save / Create), each Redis command and each network call is    *)
(* one atomic step, so handlers interleave exactly where the Go code       *)
(* interleaves: between statements, never inside one.  The ORM's Save      *)
(* writes the whole row from the handler's local copy.                     *)
(***************************************************************************)
EXTENDS Integers, Sequences, FiniteSets, TLC

(***************************************************************************)
(* Bounds of the model                                                     *)
(***************************************************************************)
MaxDay == 2            \* calendar days the clock can reach
MaxInFlight == 2       \* handlers running at the same time
MaxCalls == 3          \* requests and webhook notifications received in one run
ClockStep == 15        \* minutes by which the Redis clock advances

(***************************************************************************)
(* Program constants                                                       *)
(***************************************************************************)
StagingTTL == 30       \* minutes, redisClient.Set(..., 30*time.Minute)
maxAttempts == 120     \* poll ceiling passed to pollNanoBananaTask

UserIds == {"u1", "u2"}
\* the users who sign in and send generate-cover requests
Visitors == {"u1"}
Anonymous == "anonymous"
GenProcs == {"g1", "g2"}
LoginProcs == {"l1"}
PayProcs == {"c1"}
HookProcs == {"w1"}

VARIABLES
    users,          \* table users: id -> row
    generations,    \* table generations, in insertion order
    redis,          \* Redis keys image:<id> -> [ttl, age]
    today,          \* calendar day of time.Now()
    keys,           \* providers whose API key is configured
    gen,            \* generate-cover handlers: locals and position
    login,          \* OAuth callback handlers: locals and position
    transactions,   \* table transactions, by transaction id
    credits,        \* per transaction: times its package was credited
    deliveries,     \* webhook notifications received so far
    requests,       \* requests received so far, webhook notifications apart
    pay,            \* payment-create handlers: locals and position
    hook,           \* webhook handlers: locals and position
    image,          \* GET /api/image handler: locals and position
    app,            \* state of the App component in the browser
    loop,           \* pollNanoBananaTask, attempt by attempt: locals and position
    me              \* GET /api/auth/me handler: locals and position

vars == <<users, generations, redis, today, keys, gen, login,
          transactions, credits, deliveries, requests, pay, hook, image, app,
          loop, me>>

(***************************************************************************)
(* Rows.  LastFreeGeneration is a time.Time: 0 is the zero time, d > 0 a   *)
(* moment within calendar day d.                                           *)
(***************************************************************************)
NoUser == [exists |-> FALSE, free |-> 0, last |-> 0, paid |-> 0]

\* variant: a new account starts without the free generation
UserWithoutAllotment == [exists |-> TRUE, free |-> 0, last |-> 0, paid |-> 0]

\* GetOrCreateUser lines 87-95: the row of a new account
FreshUser == [exists |-> TRUE, free |-> 1, last |-> 0, paid |-> 0]

\* time.Time.Before(today), today being midnight of the current day
Before(last, day) == last < day

\* time.Time.IsZero
IsZero(last) == last = 0

(***************************************************************************)
(* Generate-cover handler locals                                           *)
(***************************************************************************)
GenIdle ==
    [pc |-> "idle", uid |-> Anonymous, provider |-> "", user |-> NoUser,
     remaining |-> 0, useFree |-> FALSE, err |-> "nil", coverURL |-> "",
     status |-> 0,
     \* what this request has done so far
     puts |-> 0, dels |-> 0, submits |-> 0, polls |-> 0,
     debits |-> 0, records |-> 0]

\* the handler has answered: its locals are gone, the response stays
Respond(g, code) ==
    [g EXCEPT !.pc = "done", !.status = code, !.provider = "", !.user = NoUser,
              !.useFree = FALSE]

LoginIdle == [pc |-> "idle", uid |-> "", user |-> NoUser, status |-> 0]

\* a handler holds its slot until its response has been delivered
Running(pcv) == pcv # "idle"

NoTxn == [user |-> "", pkg |-> "", amount |-> 0, currency |-> "", status |-> "",
          order |-> 0]

PayIdle == [pc |-> "idle", uid |-> "", txn |-> 0, row |-> NoTxn, status |-> 0]

\* `found' is the status the transaction had when First read it
\* and `notified' the status field of the notification
HookIdle == [pc |-> "idle", txn |-> 0, row |-> NoTxn, user |-> NoUser,
             order |-> 0, found |-> "", notified |-> "", status |-> 0]

\* GET /api/image/:imageId, lines 316-339
ImageIdle == [pc |-> "idle", id |-> "", got |-> "", status |-> 0]

\* useState of App, lines 19-22; alerts counts the alert() calls and
\* response is the answer handleGenerate received last
NoAnswer == [status |-> 0, details |-> FALSE]
AppIdle == [isGenerating |-> FALSE, showPackages |-> FALSE,
            generatedCover |-> FALSE, alerts |-> 0, response |-> NoAnswer,
            \* the account of the browser's session cookie
            user |-> Anonymous]

\* pollNanoBananaTask lines 1009-1012: the loop counter i, the polls sent,
\* the answer to the last of them, and what the call returned
LoopIdle == [pc |-> "idle", i |-> 0, polls |-> 0, answer |-> "",
             ok |-> FALSE, err |-> "nil"]

\* GET /api/auth/me, lines 423-459: the user read by the handler, the copy
\* CheckGenerationLimit works on, and the four ledger fields of the answer
MeIdle == [pc |-> "idle", uid |-> "", user |-> NoUser, copy |-> NoUser,
           status |-> 0, ledger |-> FALSE,
           can_generate |-> FALSE, generations_remaining |-> 0,
           free_generations_left |-> 0, paid_generations |-> 0]

InFlight ==
    Cardinality({p \in GenProcs : Running(gen[p].pc)})
    + Cardinality({l \in LoginProcs : Running(login[l].pc)})
    + Cardinality({c \in PayProcs : Running(pay[c].pc)})
    + Cardinality({w \in HookProcs : Running(hook[w].pc)})

Init ==
    /\ users = [u \in UserIds |-> NoUser]
    /\ generations = <<>>
    /\ redis = <<>>
    /\ today = 1
    /\ keys \in SUBSET {"nanobanana", "openai"}
    /\ gen = [p \in GenProcs |-> GenIdle]
    /\ login = [l \in LoginProcs |-> LoginIdle]
    /\ transactions = <<>>
    /\ credits = <<>>
    /\ deliveries = 0
    /\ requests = 0
    /\ pay = [c \in PayProcs |-> PayIdle]
    /\ hook = [w \in HookProcs |-> HookIdle]
    /\ image = ImageIdle
    /\ app = AppIdle
    /\ loop = LoopIdle
    /\ me = MeIdle

(***************************************************************************)
(* The clock                                                               *)
(***************************************************************************)
NextDay ==
    /\ today < MaxDay
    /\ today' = today + 1
    /\ UNCHANGED <<users, generations, redis, keys, gen, login, transactions, credits, deliveries, requests, pay, hook, image, app, loop, me>>

\* Redis drops a key once its age reaches its TTL
Expire(store) ==
    LET aged == [k \in DOMAIN store |->
                    [store[k] EXCEPT !.age = store[k].age + ClockStep]]
        live == {k \in DOMAIN aged : aged[k].age < aged[k].ttl}
    IN  [k \in live |-> aged[k]]

RedisTick ==
    /\ DOMAIN redis # {}
    /\ redis' = Expire(redis)
    /\ UNCHANGED <<users, generations, today, keys, gen, login, transactions, credits, deliveries, requests, pay, hook, image, app, loop, me>>

(***************************************************************************)
(* GetOrCreateUser, called from the OAuth callback                         *)
(***************************************************************************)
LoginStart(l) ==
    /\ login[l].pc = "idle"
    /\ InFlight < MaxInFlight
    /\ \E u \in Visitors :
         login' = [login EXCEPT ![l] = [LoginIdle EXCEPT !.pc = "first", !.uid = u]]
    /\ UNCHANGED <<users, generations, redis, today, keys, gen, transactions, credits, deliveries, requests, pay, hook, image, app, loop, me>>

GetOrCreateUser_First(l) ==
    /\ login[l].pc = "first"
    /\ login' = [login EXCEPT ![l].user = users[login[l].uid],
                              ![l].pc = IF users[login[l].uid].exists
                                        THEN "save" ELSE "create"]
    /\ UNCHANGED <<users, generations, redis, today, keys, gen, transactions, credits, deliveries, requests, pay, hook, image, app, loop, me>>

\* db.Create fails on the primary key when the row appeared meanwhile
GetOrCreateUser_Create(l) ==
    /\ login[l].pc = "create"
    /\ IF users[login[l].uid].exists
       THEN /\ login' = [login EXCEPT ![l].pc = "done", ![l].status = 500]
            /\ UNCHANGED users
       ELSE /\ users' = [users EXCEPT ![login[l].uid] = FreshUser]
            /\ login' = [login EXCEPT ![l].pc = "done", ![l].status = 307]
    /\ UNCHANGED <<generations, redis, today, keys, gen, transactions, credits, deliveries, requests, pay, hook, image, app, loop, me>>

\* db.Save(&user) writes every column of the copy read by First
GetOrCreateUser_Save(l) ==
    /\ login[l].pc = "save"
    /\ users' = [users EXCEPT ![login[l].uid] = login[l].user]
    /\ login' = [login EXCEPT ![l].pc = "done", ![l].status = 307]
    /\ UNCHANGED <<generations, redis, today, keys, gen, transactions, credits, deliveries, requests, pay, hook, image, app, loop, me>>

LoginClose(l) ==
    /\ login[l].pc = "done"
    /\ login' = [login EXCEPT ![l] = LoginIdle]
    /\ UNCHANGED <<users, generations, redis, today, keys, gen, transactions, credits, deliveries, requests, pay, hook, image, app, loop, me>>

(***************************************************************************)
(* Credit ledger (database.go), as the code computes it on a local copy    *)
(***************************************************************************)
\* CheckGenerationLimit, lines 123-128: the copy after the day reset
ResetIfNewDay(row, day) ==
    IF Before(row.last, day) THEN [row EXCEPT !.free = 1, !.last = 0] ELSE row

\* variant: the gate lets every account through
canGenerateAlways(row) == TRUE

\* CheckGenerationLimit, lines 131-132
canGenerateOf(row) == row.free > 0 \/ row.paid > 0

remainingOf(row) == row.free + row.paid

\* variant: a free settlement falls back to the paid balance
UseGenerationFallback(row, isFree, day) ==
    LET r == IF Before(row.last, day) THEN [row EXCEPT !.free = 1, !.last = 0]
             ELSE row
    IN  IF isFree /\ r.free > 0
        THEN [ok |-> TRUE, user |-> [r EXCEPT !.free = r.free - 1, !.last = day]]
        ELSE IF r.paid > 0
             THEN [ok |-> TRUE, user |-> [r EXCEPT !.paid = r.paid - 1]]
             ELSE [ok |-> FALSE, user |-> r]

\* variant: the counters are decremented without the `> 0' tests
UseGenerationUnguarded(row, isFree, day) ==
    IF isFree
    THEN [ok |-> TRUE, user |-> [row EXCEPT !.free = row.free - 1, !.last = day]]
    ELSE [ok |-> TRUE, user |-> [row EXCEPT !.paid = row.paid - 1]]

\* variant: the day reset is applied whatever the flag
UseGenerationResetAlways(row, isFree, day) ==
    LET r == IF Before(row.last, day) THEN [row EXCEPT !.free = 1] ELSE row
    IN  IF isFree
        THEN IF r.free > 0
             THEN [ok |-> TRUE, user |-> [r EXCEPT !.free = r.free - 1, !.last = day]]
             ELSE [ok |-> FALSE, user |-> r]
        ELSE IF r.paid > 0
             THEN [ok |-> TRUE, user |-> [r EXCEPT !.paid = r.paid - 1]]
             ELSE [ok |-> FALSE, user |-> r]

\* variant: the settlement succeeds without taking the free generation
UseGenerationKeepsFree(row, isFree, day) ==
    IF isFree
    THEN [ok |-> TRUE, user |-> [row EXCEPT !.last = day]]
    ELSE IF row.paid > 0
         THEN [ok |-> TRUE, user |-> [row EXCEPT !.paid = row.paid - 1]]
         ELSE [ok |-> FALSE, user |-> row]

\* UseGeneration, lines 144-165: outcome and the copy that Save would write
UseGenerationLogic(row, isFree, day) ==
    IF isFree
    THEN LET r == IF Before(row.last, day) THEN [row EXCEPT !.free = 1] ELSE row
         IN  IF r.free > 0
             THEN [ok |-> TRUE, user |-> [r EXCEPT !.free = r.free - 1, !.last = day]]
             ELSE [ok |-> FALSE, user |-> r]
    ELSE IF row.paid > 0
         THEN [ok |-> TRUE, user |-> [row EXCEPT !.paid = row.paid - 1]]
         ELSE [ok |-> FALSE, user |-> row]

\* variant: the paid balance is spent first
usePaidFirst(row, day) == row.paid = 0 /\ row.free > 0

\* generate-cover handler, line 699
useFreeOf(row, day) == row.free > 0 /\ (Before(row.last, day) \/ IsZero(row.last))

(***************************************************************************)
(* Error of a generation and the status class of the response,             *)
(* generate-cover handler lines 737-755 (substring tests on the message)   *)
(***************************************************************************)
\* variant: the provider's own 402 is passed through to the caller
StatusForPassThrough(err) ==
    IF err \in {"API key not configured", "IMGBB_API_KEY not set"} THEN 400
    ELSE IF err = "authentication failed" THEN 401
    ELSE IF err = "insufficient account balance" THEN 402
    ELSE 500

StatusFor(err) ==
    IF err \in {"API key not configured", "IMGBB_API_KEY not set"} THEN 400
    ELSE IF err \in {"authentication failed", "insufficient account balance"} THEN 401
    ELSE 500

(***************************************************************************)
(* POST /api/generate-cover                                                *)
(***************************************************************************)
Providers == {"nanobanana", "openai", "other"}
Images == {"ok", "badbase64", "toobig"}

\* the session cookie names a user only after a completed OAuth callback,
\* which leaves the user's row in the table
SessionIds == {u \in UserIds : users[u].exists} \cup {Anonymous}

RowOf(uid) == IF uid \in UserIds THEN users[uid] ELSE NoUser

\* the two request slots are interchangeable: g2 is used while g1 is busy
GenStart(p) ==
    /\ gen[p].pc = "idle"
    /\ p = "g2" => gen["g1"].pc # "idle"
    /\ InFlight < MaxInFlight
    /\ requests + deliveries < MaxCalls
    /\ requests' = requests + 1
    /\ \E u \in SessionIds :
         gen' = [gen EXCEPT ![p].pc = "check", ![p].uid = u]
    /\ UNCHANGED <<users, generations, redis, today, keys, login, transactions, credits, deliveries, pay, hook, image, app, loop, me>>

GenClose(p) ==
    /\ gen[p].pc = "done"
    /\ gen' = [gen EXCEPT ![p] = GenIdle]
    /\ UNCHANGED <<users, generations, redis, today, keys, login, transactions, credits, deliveries, requests, pay, hook, image, app, loop, me>>

\* lines 685-692: the gate on the result of CheckGenerationLimit
Gate(g, row) ==
    IF canGenerateOf(row)
    THEN [g EXCEPT !.pc = "determine", !.user = NoUser]
    ELSE [Respond(g, 402) EXCEPT !.remaining = remainingOf(row)]

\* variant: the read of a missing account gives no error
recordAlwaysFound(row) == FALSE

\* CheckGenerationLimit lines 115-117: First returns an error when no row
\* has the id
recordNotFound(row) == ~row.exists

\* CheckGenerationLimit line 115, then the reset on the copy
CheckGenerationLimit_First(p) ==
    /\ gen[p].pc = "check"
    /\ LET row == RowOf(gen[p].uid) IN
         IF recordNotFound(row)
         THEN gen' = [gen EXCEPT ![p] = Respond(gen[p], 500)]
         ELSE IF Before(row.last, today)
              THEN gen' = [gen EXCEPT ![p].pc = "check_save",
                                      ![p].user = ResetIfNewDay(row, today)]
              ELSE gen' = [gen EXCEPT ![p] = Gate(gen[p], row)]
    /\ UNCHANGED <<users, generations, redis, today, keys, login, transactions, credits, deliveries, requests, pay, hook, image, app, loop, me>>

\* CheckGenerationLimit line 127: db.Save(&user)
CheckGenerationLimit_Save(p) ==
    /\ gen[p].pc = "check_save"
    /\ users' = [users EXCEPT ![gen[p].uid] = gen[p].user]
    /\ gen' = [gen EXCEPT ![p] = Gate(gen[p], gen[p].user)]
    /\ UNCHANGED <<generations, redis, today, keys, login, transactions, credits, deliveries, requests, pay, hook, image, app, loop, me>>

\* variant: the image is staged for either provider
DispatchStagesAll(g, pr) ==
    IF pr = "nanobanana"
    THEN IF "nanobanana" \in keys THEN [g EXCEPT !.pc = "stage", !.provider = pr]
         ELSE Respond(g, 500)
    ELSE IF pr = "openai"
    THEN IF "openai" \in keys THEN [g EXCEPT !.pc = "stage", !.provider = pr]
         ELSE Respond(g, 500)
    ELSE Respond(g, 400)

\* lines 701-717: the provider branch taken when the key is configured
Dispatch(g, pr) ==
    IF pr = "nanobanana"
    THEN IF "nanobanana" \in keys THEN [g EXCEPT !.pc = "stage", !.provider = pr]
         ELSE Respond(g, 500)
    ELSE IF pr = "openai"
    THEN IF "openai" \in keys THEN [g EXCEPT !.pc = "openai", !.provider = pr]
         ELSE Respond(g, 500)
    ELSE Respond(g, 400)

\* lines 695-717: second read of the user, useFree, provider dispatch
DetermineCredit(p) ==
    /\ gen[p].pc = "determine"
    /\ \E pr \in Providers :
         gen' = [gen EXCEPT ![p] =
                   Dispatch([gen[p] EXCEPT !.useFree =
                                useFreeOf(RowOf(gen[p].uid), today)], pr)]
    /\ UNCHANGED <<users, generations, redis, today, keys, login, transactions, credits, deliveries, requests, pay, hook, image, app, loop, me>>

\* variant: the handler goes on to the settlement although err is set
FailThenSettle(g, e) == [g EXCEPT !.pc = "use", !.err = e]

\* handler lines 737-755: a failed generation is answered without settlement
Fail(g, e) == [Respond(g, StatusFor(e)) EXCEPT !.err = e]

RedisSet(store, id, ttl) ==
    [k \in DOMAIN store \cup {id} |->
        IF k = id THEN [ttl |-> ttl, age |-> 0] ELSE store[k]]

\* variant: the clean-up leaves the key in place
RedisDelNothing(store, id) == store

\* redisClient.Del: removing a missing key is not an error
RedisDel(store, id) == [k \in DOMAIN store \ {id} |-> store[k]]

\* generateCoverWithNanoBanana lines 850-869: decode, size check, Redis Set
\* under a fresh image id (the request's own)
Stage(p) ==
    /\ gen[p].pc = "stage"
    /\ \E im \in Images :
         IF im = "badbase64"
         THEN /\ gen' = [gen EXCEPT ![p] = Fail(gen[p], "failed to decode base64 image")]
              /\ UNCHANGED redis
         ELSE IF im = "toobig"
         THEN /\ gen' = [gen EXCEPT ![p] = Fail(gen[p], "image size exceeds 10MB limit")]
              /\ UNCHANGED redis
         ELSE \/ /\ redis' = RedisSet(redis, p, StagingTTL)
                 /\ gen' = [gen EXCEPT ![p].pc = "submit", ![p].puts = gen[p].puts + 1]
              \/ /\ gen' = [gen EXCEPT ![p] = Fail(gen[p], "failed to save image to Redis")]
                 /\ UNCHANGED redis
    /\ UNCHANGED <<users, generations, today, keys, login, transactions, credits, deliveries, requests, pay, hook, image, app, loop, me>>

SubmitErrors ==
    {"authentication failed", "insufficient account balance",
     "rate limit exceeded", "nano banana API error"}

\* lines 879-885: createNanoBananaTask, Redis Del on error
Submit(p) ==
    /\ gen[p].pc = "submit"
    /\ \/ /\ gen' = [gen EXCEPT ![p].pc = "poll", ![p].submits = gen[p].submits + 1]
          /\ UNCHANGED redis
       \/ \E e \in SubmitErrors :
          /\ redis' = RedisDel(redis, p)
          /\ gen' = [gen EXCEPT ![p] =
                [Fail(gen[p], e) EXCEPT !.submits = gen[p].submits + 1,
                                        !.dels = gen[p].dels + 1]]
    /\ UNCHANGED <<users, generations, today, keys, login, transactions, credits, deliveries, requests, pay, hook, image, app, loop, me>>

(***************************************************************************)
(* pollNanoBananaTask.  The provider's answers are a script: `lead'        *)
(* answers of kind `wait' (still processing, or a transport / read /       *)
(* parse error, all of which sleep and retry), then `final' for ever.      *)
(***************************************************************************)
Leads == {0, maxAttempts - 1, maxAttempts}
WaitKinds == {"waiting", "transport error"}
FinalKinds == {"success", "fail", "code"}
Scripts == [lead : Leads, wait : WaitKinds, final : FinalKinds]

Answer(script, n) == IF n <= script.lead THEN script.wait ELSE script.final

PollError(a) == IF a = "fail" THEN "task failed" ELSE "nano banana API error"

\* the attempts (1-based) of the loop `for i := 0; i < max; i++' whose
\* answer ends the loop
TerminalAttempts(script, max) ==
    {n \in 1..max : Answer(script, n) \notin WaitKinds}

FirstOf(S) == CHOOSE n \in S : \A m \in S : n <= m

\* variant: the loop gives up one attempt early, `i < max - 1'
pollStopsEarly(script, max) ==
    IF TerminalAttempts(script, max - 1) = {}
    THEN [ok |-> FALSE, err |-> "task timeout", polls |-> max - 1]
    ELSE IF Answer(script, FirstOf(TerminalAttempts(script, max - 1))) = "success"
         THEN [ok |-> TRUE, err |-> "nil",
               polls |-> FirstOf(TerminalAttempts(script, max - 1))]
         ELSE [ok |-> FALSE,
               err |-> PollError(Answer(script, FirstOf(TerminalAttempts(script, max - 1)))),
               polls |-> FirstOf(TerminalAttempts(script, max - 1))]

\* the loop returns at its first terminal answer, or reports the timeout
\* once max attempts have been spent
pollNanoBananaTask(script, max) ==
    IF TerminalAttempts(script, max) = {}
    THEN [ok |-> FALSE, err |-> "task timeout", polls |-> max]
    ELSE IF Answer(script, FirstOf(TerminalAttempts(script, max))) = "success"
         THEN [ok |-> TRUE, err |-> "nil",
               polls |-> FirstOf(TerminalAttempts(script, max))]
         ELSE [ok |-> FALSE,
               err |-> PollError(Answer(script, FirstOf(TerminalAttempts(script, max)))),
               polls |-> FirstOf(TerminalAttempts(script, max))]

\* what the poll loop started at line 893 can return
PollResults == {pollNanoBananaTask(script, maxAttempts) : script \in Scripts}

\* variant: after a successful poll the key is left for the TTL to remove
delOnErrorOnly(store, id, ok) == IF ok THEN store ELSE RedisDel(store, id)

\* lines 894-897 and 902-903: redisClient.Del after the poll loop, on its
\* error and on its success, before anything else is done with the result
delAfterPoll(store, id, ok) == RedisDel(store, id)

\* lines 889-904: poll, then Redis Del on both outcomes
Poll(p) ==
    /\ gen[p].pc = "poll"
    /\ \E r \in PollResults :
         /\ redis' = delAfterPoll(redis, p, r.ok)
         /\ gen' = [gen EXCEPT ![p] =
               IF r.ok
               THEN [gen[p] EXCEPT !.pc = "persist", !.polls = r.polls,
                                   !.dels = gen[p].dels + 1]
               ELSE [Fail(gen[p], r.err) EXCEPT !.polls = r.polls,
                                                !.dels = gen[p].dels + 1]]
    /\ UNCHANGED <<users, generations, today, keys, login, transactions, credits, deliveries, requests, pay, hook, image, app, loop, me>>

\* generateCoverWithOpenAI lines 804-829: the messages of its errors; an
\* answer with a status other than 200, the 401 of a rejected key included,
\* is reported as OpenAI API error with the body and the status
OpenAIErrors == {"OpenAI API error (status: 401)", "OpenAI API error"}

\* generateCoverWithOpenAI lines 782-829: one synchronous call
OpenAI(p) ==
    /\ gen[p].pc = "openai"
    /\ \/ gen' = [gen EXCEPT ![p].pc = "persist", ![p].submits = gen[p].submits + 1]
       \/ \E e \in OpenAIErrors :
            gen' = [gen EXCEPT ![p] =
               [Fail(gen[p], e) EXCEPT !.submits = gen[p].submits + 1]]
    /\ UNCHANGED <<users, generations, redis, today, keys, login, transactions, credits, deliveries, requests, pay, hook, image, app, loop, me>>

\* variant: a result that cannot be stored fails the generation
savedOrFail(g, saved) ==
    IF saved THEN [g EXCEPT !.pc = "use", !.coverURL = "local"]
    ELSE Fail(g, "failed to save image")

\* lines 907-915 and 833-845: the local URL when the result was stored,
\* resultURL with a nil error when downloadAndSaveImage failed
savedOrResultURL(g, saved) ==
    [g EXCEPT !.pc = "use", !.coverURL = IF saved THEN "local" ELSE "provider"]

\* downloadAndSaveImage and its fallback, lines 906-915 and 831-845
Persist(p) ==
    /\ gen[p].pc = "persist"
    /\ \E saved \in BOOLEAN :
         gen' = [gen EXCEPT ![p] = savedOrResultURL(gen[p], saved)]
    /\ UNCHANGED <<users, generations, redis, today, keys, login, transactions, credits, deliveries, requests, pay, hook, image, app, loop, me>>

\* variant: a failed settlement fails the request
settlementErrorSurfaced(g) == Fail(g, "failed to update generation count")

\* handler lines 721-723: the error of UseGeneration is printed and the
\* handler goes on to record the generation
settlementErrorLogged(g) == [g EXCEPT !.pc = "record"]

\* UseGeneration lines 138-165, called at handler line 721
UseGeneration_First(p) ==
    /\ gen[p].pc = "use"
    /\ LET row == RowOf(gen[p].uid)
           r   == UseGenerationLogic(row, gen[p].useFree, today)
       IN  gen' = [gen EXCEPT ![p] =
                     IF row.exists /\ r.ok
                     THEN [gen[p] EXCEPT !.pc = "use_save", !.user = r.user]
                     ELSE settlementErrorLogged(gen[p])]
    /\ UNCHANGED <<users, generations, redis, today, keys, login, transactions, credits, deliveries, requests, pay, hook, image, app, loop, me>>

\* UseGeneration line 167: db.Save(&user)
UseGeneration_Save(p) ==
    /\ gen[p].pc = "use_save"
    /\ users' = [users EXCEPT ![gen[p].uid] = gen[p].user]
    /\ gen' = [gen EXCEPT ![p].pc = "record", ![p].user = NoUser,
                          ![p].debits = gen[p].debits + 1]
    /\ UNCHANGED <<generations, redis, today, keys, login, transactions, credits, deliveries, requests, pay, hook, image, app, loop, me>>

\* variant: only an image stored locally is referenced by the row
GenerationOfStored(g) ==
    [user |-> g.uid, url |-> IF g.coverURL = "local" THEN "local" ELSE "",
     isFree |-> g.useFree]

\* handler lines 725-732: the Generation row built from the request
Generation(g) == [user |-> g.uid, url |-> g.coverURL, isFree |-> g.useFree]

\* handler lines 725-762: db.Create(&generation), then the 200 response;
\* of the row, the columns UserID, ImageURL and IsFree
Record(p) ==
    /\ gen[p].pc = "record"
    /\ generations' = Append(generations, Generation(gen[p]))
    /\ gen' = [gen EXCEPT ![p] = [Respond(gen[p], 200) EXCEPT
                                     !.records = gen[p].records + 1]]
    /\ UNCHANGED <<users, redis, today, keys, login, transactions, credits, deliveries, requests, pay, hook, image, app, loop, me>>

(***************************************************************************)
(* Package catalog, database.go lines 55-59; prices in hundredths of the   *)
(* currency unit                                                           *)
(***************************************************************************)
Packages ==
    {[type |-> "pack1", count |-> 10, priceUSD |-> 299, priceRUB |-> 24900],
     [type |-> "pack2", count |-> 30, priceUSD |-> 799, priceRUB |-> 59900],
     [type |-> "pack3", count |-> 100, priceUSD |-> 1999, priceRUB |-> 149900]}

PackageTypes == {pkg.type : pkg \in Packages}

CountOf(type) == (CHOOSE pkg \in Packages : pkg.type = type).count

\* currency of a request: the two the catalog prices, and another string
Currencies == {"RUB", "USD", "EUR"}

\* payment-create handler lines 536-542: the amount charged
AmountFor(type, currency) ==
    LET pkg == CHOOSE q \in Packages : q.type = type
    IN  IF currency = "RUB" THEN pkg.priceRUB ELSE pkg.priceUSD

(***************************************************************************)
(* POST /api/payment/create.  LavaOrderID is a string column with a unique *)
(* index: 0 stands for the empty string, OrderRef(t) for the invoice id    *)
(* the gateway issues for transaction t.                                   *)
(***************************************************************************)
OrderRef(t) == 100 + t

TxnIds == DOMAIN transactions

\* the unique index on lava_order_id rejects a second row with the same value
OrderTaken(order, except) ==
    \E t \in TxnIds \ {except} : transactions[t].order = order

\* package_type of a request: two catalog entries and an unknown one
PackageInputs == {"pack1", "pack2", "pack0"}

\* selectedPackage == nil
NoPackage == [type |-> "", count |-> 0, priceUSD |-> 0, priceRUB |-> 0]

\* variant: an unknown package_type selects the first catalog entry
selectedFirstPackage(type) ==
    IF type \in PackageTypes THEN CHOOSE pkg \in Packages : pkg.type = type
    ELSE CHOOSE pkg \in Packages : pkg.type = "pack1"

\* lines 522-529: the catalog entry whose Type is the requested one, if any
selectedPackage(type) ==
    IF type \in PackageTypes THEN CHOOSE pkg \in Packages : pkg.type = type
    ELSE NoPackage

\* lines 502-558: session, body, catalog lookup, db.Create(&transaction)
PaymentCreate_Body(c, u, ty, cur) ==
    IF u = Anonymous
    THEN /\ pay' = [pay EXCEPT ![c] = [PayIdle EXCEPT !.pc = "done", !.status = 401]]
         /\ UNCHANGED <<transactions, credits>>
    ELSE IF selectedPackage(ty) = NoPackage
    THEN /\ pay' = [pay EXCEPT ![c] = [PayIdle EXCEPT !.pc = "done", !.uid = u,
                                                    !.status = 400]]
         /\ UNCHANGED <<transactions, credits>>
    ELSE IF OrderTaken(0, 0)
    THEN /\ pay' = [pay EXCEPT ![c] = [PayIdle EXCEPT !.pc = "done", !.uid = u,
                                                    !.status = 500]]
         /\ UNCHANGED <<transactions, credits>>
    ELSE LET row == [user |-> u, pkg |-> ty,
                     amount |-> AmountFor(selectedPackage(ty).type, cur),
                     currency |-> cur, status |-> "pending", order |-> 0]
         IN  /\ transactions' = Append(transactions, row)
             /\ credits' = Append(credits, 0)
             /\ pay' = [pay EXCEPT ![c] = [PayIdle EXCEPT !.pc = "lava", !.uid = u,
                              !.txn = Len(transactions) + 1, !.row = row]]

PaymentCreate_Create(c) ==
    /\ pay[c].pc = "idle"
    /\ InFlight < MaxInFlight
    /\ requests + deliveries < MaxCalls
    /\ requests' = requests + 1
    /\ \E u \in SessionIds, ty \in PackageInputs, cur \in Currencies :
         PaymentCreate_Body(c, u, ty, cur)
    /\ UNCHANGED <<users, generations, redis, today, keys, gen, login, deliveries,
                   hook, image, app, loop, me>>

\* variant: the invoice id is not put on the transaction
LavaOrderIDDropped(row, orderID) == row

\* line 568: transaction.LavaOrderID = orderID
WithLavaOrderID(row, orderID) == [row EXCEPT !.order = orderID]

\* lines 560-568: createLavaTopOrder answers with an invoice id or fails
createLavaTopOrder(c) ==
    /\ pay[c].pc = "lava"
    /\ \/ pay' = [pay EXCEPT ![c].pc = "save",
                             ![c].row = WithLavaOrderID(pay[c].row, OrderRef(pay[c].txn))]
       \/ pay' = [pay EXCEPT ![c].pc = "done", ![c].status = 500, ![c].row = NoTxn]
    /\ UNCHANGED <<users, generations, redis, today, keys, gen, login,
                   transactions, credits, deliveries, requests, hook, image, app, loop, me>>

\* lines 567-575: db.Save(&transaction) writes every column of the copy
PaymentCreate_Save(c) ==
    /\ pay[c].pc = "save"
    /\ transactions' = [transactions EXCEPT ![pay[c].txn] = pay[c].row]
    /\ pay' = [pay EXCEPT ![c].pc = "done", ![c].status = 200, ![c].row = NoTxn]
    /\ UNCHANGED <<users, generations, redis, today, keys, gen, login,
                   credits, deliveries, requests, hook, image, app, loop, me>>

PayClose(c) ==
    /\ pay[c].pc = "done"
    /\ pay' = [pay EXCEPT ![c] = PayIdle]
    /\ UNCHANGED <<users, generations, redis, today, keys, gen, login,
                   transactions, credits, deliveries, requests, hook, image, app, loop, me>>

(***************************************************************************)
(* POST /api/payment/webhook                                               *)
(***************************************************************************)
HookStatuses == {"success", "completed", "failed"}

\* order_id of a notification: absent (empty), or an invoice id
HookOrders == {0} \cup {OrderRef(t) : t \in 1..MaxCalls}

\* variant: a query that finds no row falls back to the first transaction
MatchingOrFirst(order) ==
    IF \E t \in TxnIds : transactions[t].order = order
    THEN {t \in TxnIds : transactions[t].order = order}
    ELSE {t \in TxnIds : t = 1}

Matching(order) == {t \in TxnIds : transactions[t].order = order}

\* variant: only the status `success' completes the transaction
SettledOnSuccessOnly(status) ==
    IF status = "success" THEN "completed" ELSE "failed"

\* lines 599-601 and 613-614: the status written on the copy
SettledStatus(status) ==
    IF status = "success" \/ status = "completed" THEN "completed" ELSE "failed"

\* lines 582-597: body, then db.Where("lava_order_id = ?").First
Webhook_First(w) ==
    /\ hook[w].pc = "idle"
    /\ InFlight < MaxInFlight
    /\ requests + deliveries < MaxCalls
    /\ deliveries' = deliveries + 1
    /\ \E order \in HookOrders, status \in HookStatuses :
         IF Matching(order) = {}
         THEN hook' = [hook EXCEPT ![w] =
                [HookIdle EXCEPT !.pc = "done", !.status = 404,
                                 !.order = order, !.notified = status]]
         ELSE \E t \in Matching(order) :
                hook' = [hook EXCEPT ![w] =
                    [HookIdle EXCEPT !.pc = "save", !.txn = t, !.order = order,
                        !.found = transactions[t].status,
                        !.notified = status,
                        !.row = [transactions[t] EXCEPT !.status = SettledStatus(status)]]]
    /\ UNCHANGED <<users, generations, redis, today, keys, gen, login,
                   transactions, credits, requests, pay, image, app, loop, me>>

\* lines 602 and 615: db.Save(&transaction) writes every column of the copy
Webhook_Save(w) ==
    /\ hook[w].pc = "save"
    /\ transactions' = [transactions EXCEPT ![hook[w].txn] = hook[w].row]
    /\ hook' = [hook EXCEPT ![w] =
          IF hook[w].row.status = "completed"
          THEN [hook[w] EXCEPT !.pc = "add"]
          ELSE [hook[w] EXCEPT !.pc = "done", !.status = 200, !.row = NoTxn,
                               !.found = "", !.notified = "", !.order = 0]]
    /\ UNCHANGED <<users, generations, redis, today, keys, gen, login,
                   credits, deliveries, requests, pay, image, app, loop, me>>

\* AddPaidGenerations lines 171-177: First, then the sum on the copy
AddPaidGenerations_First(w) ==
    /\ hook[w].pc = "add"
    /\ LET row == RowOf(hook[w].row.user) IN
         hook' = [hook EXCEPT ![w] =
            IF row.exists
            THEN [hook[w] EXCEPT !.pc = "add_save",
                     !.user = [row EXCEPT !.paid = row.paid + CountOf(hook[w].row.pkg)]]
            ELSE [hook[w] EXCEPT !.pc = "done", !.status = 200, !.row = NoTxn,
                                 !.found = "", !.notified = "", !.order = 0]]
    /\ UNCHANGED <<users, generations, redis, today, keys, gen, login,
                   transactions, credits, deliveries, requests, pay, image, app, loop, me>>

\* AddPaidGenerations line 178: db.Save(&user); then the handler answers ok
AddPaidGenerations_Save(w) ==
    /\ hook[w].pc = "add_save"
    /\ users' = [users EXCEPT ![hook[w].row.user] = hook[w].user]
    /\ credits' = [credits EXCEPT ![hook[w].txn] = credits[hook[w].txn] + 1]
    /\ hook' = [hook EXCEPT ![w].pc = "done", ![w].status = 200,
                            ![w].row = NoTxn, ![w].user = NoUser,
                            ![w].found = "", ![w].notified = "", ![w].order = 0]
    /\ UNCHANGED <<generations, redis, today, keys, gen, login,
                   transactions, deliveries, requests, pay, image, app, loop, me>>

\* database.go lines 173-175 and 178: the read or the save of the user
\* returns an error; payment.go lines 606-608 print it and the handler goes
\* on to answer ok
AddPaidGenerations_Error(w) ==
    /\ hook[w].pc \in {"add", "add_save"}
    /\ hook' = [hook EXCEPT ![w].pc = "done", ![w].status = 200,
                            ![w].row = NoTxn, ![w].user = NoUser,
                            ![w].found = "", ![w].notified = "", ![w].order = 0]
    /\ UNCHANGED <<users, generations, redis, today, keys, gen, login,
                   transactions, credits, deliveries, requests, pay, image, app, loop, me>>

HookClose(w) ==
    /\ hook[w].pc = "done"
    /\ hook' = [hook EXCEPT ![w] = HookIdle]
    /\ UNCHANGED <<users, generations, redis, today, keys, gen, login,
                   transactions, credits, deliveries, requests, pay, image, app, loop, me>>

(***************************************************************************)
(* GET /api/image/:imageId, payment.go lines 316-339.  The ids asked for   *)
(* are those of the staging requests and one that was never staged.        *)
(***************************************************************************)
ImageIds == GenProcs \cup {"never"}

\* redisClient.Get: the value of a key that is present, redis.Nil otherwise
RedisGet(store, id) == IF id \in DOMAIN store THEN "value" ELSE "nil"

\* variant: redis.Nil is not told apart and the empty value is served
imageStatusNilServed(got) ==
    IF got = "error" THEN 500 ELSE 200

\* lines 322-328 and 338: 404 on redis.Nil, 500 on another error, else 200
imageStatus(got) ==
    IF got = "nil" THEN 404
    ELSE IF got = "error" THEN 500
    ELSE 200

\* lines 317-338: one Get, then the answer
GetImage ==
    /\ image.pc = "idle"
    /\ requests + deliveries < MaxCalls
    /\ requests' = requests + 1
    /\ \E id \in ImageIds :
         \E got \in {RedisGet(redis, id), "error"} :
            image' = [pc |-> "done", id |-> id, got |-> got,
                      status |-> imageStatus(got)]
    /\ UNCHANGED <<users, generations, redis, today, keys, gen, login,
                   transactions, credits, deliveries, pay, hook, app, loop, me>>

ImageClose ==
    /\ image.pc = "done"
    /\ image' = ImageIdle
    /\ UNCHANGED <<users, generations, redis, today, keys, gen, login,
                   transactions, credits, deliveries, requests, pay, hook, app, loop, me>>

(***************************************************************************)
(* App.handleGenerate in the browser, src/unnamed/part_001 lines 26-80.    *)
(* A response is its status and whether its body has the field details.   *)
(***************************************************************************)
\* answers of POST /api/generate-cover (payment.go lines 627-763): 200;
\* 402 with error, remaining and message; 400 and 500 with error alone or
\* with details; 401 with details; and no answer at all (network error)
Responses ==
    {[status |-> 200, details |-> FALSE], [status |-> 402, details |-> FALSE],
     [status |-> 401, details |-> TRUE], NoAnswer}
    \cup {[status |-> st, details |-> d] : st \in {400, 500}, d \in BOOLEAN}

\* variant: the alert is shown for every failure
catchAlertsAlways(a, r) ==
    [a EXCEPT !.showPackages = IF ~r.details /\ r.status = 402 THEN TRUE ELSE @,
              !.alerts = @ + 1,
              !.isGenerating = FALSE,
              !.response = r]

\* lines 43-79: the catch block and finally
catch(a, r) ==
    [a EXCEPT !.showPackages = IF ~r.details /\ r.status = 402 THEN TRUE ELSE @,
              !.alerts = IF r.status # 402 THEN @ + 1 ELSE @,
              !.isGenerating = FALSE,
              !.response = r]

\* lines 39-42 and 77-79: setGeneratedCover and finally
try(a, r) ==
    [a EXCEPT !.generatedCover = TRUE, !.isGenerating = FALSE, !.response = r]

\* lines 27-37: setIsGenerating(true) and the POST; the button that calls
\* it is disabled while isGenerating (part_002 line 207)
handleGenerate ==
    /\ ~app.isGenerating
    /\ requests + deliveries < MaxCalls
    /\ requests' = requests + 1
    /\ app' = [app EXCEPT !.isGenerating = TRUE]
    /\ UNCHANGED <<users, generations, redis, today, keys, gen, login,
                   transactions, credits, deliveries, pay, hook, image, loop, me>>

\* the awaited POST settles: axios rejects every status outside 2xx and a
\* request without an answer
handleGenerate_Settle ==
    /\ app.isGenerating
    /\ \E r \in Responses :
         app' = IF r.status = 200 THEN try(app, r) ELSE catch(app, r)
    /\ UNCHANGED <<users, generations, redis, today, keys, gen, login,
                   transactions, credits, deliveries, requests, pay, hook, image, loop, me>>

\* line 178: the buy button
OpenPackages ==
    /\ ~app.showPackages
    /\ app' = [app EXCEPT !.showPackages = TRUE]
    /\ UNCHANGED <<users, generations, redis, today, keys, gen, login,
                   transactions, credits, deliveries, requests, pay, hook, image, loop, me>>

\* line 301: onClose of PackagesModal
ClosePackages ==
    /\ app.showPackages
    /\ app' = [app EXCEPT !.showPackages = FALSE]
    /\ UNCHANGED <<users, generations, redis, today, keys, gen, login,
                   transactions, credits, deliveries, requests, pay, hook, image, loop, me>>

\* line 279: the clear button
ClearCover ==
    /\ app.generatedCover
    /\ app' = [app EXCEPT !.generatedCover = FALSE]
    /\ UNCHANGED <<users, generations, redis, today, keys, gen, login,
                   transactions, credits, deliveries, requests, pay, hook, image, loop, me>>

(***************************************************************************)
(* The page and the backend together.  The page is served from             *)
(* localhost:3000 or :5173 and the backend from localhost:8080, so every   *)
(* request of the page is cross-origin: the browser attaches the session   *)
(* cookie only to a request that asks for credentials.                     *)
(***************************************************************************)
\* part_001 lines 29-37: axios.post with headers only, withCredentials unset
axiosPostCredentials == FALSE

\* part_001 line 89: fetch with credentials: 'include'
fetchCredentials == TRUE

\* payment.go lines 634-642 and 503-510: session.Get("user_id") of a request
\* that came with the cookie, or without it
sessionUserID(cookie, credentials) ==
    IF credentials THEN cookie ELSE Anonymous

\* AuthContext.tsx lines 33-47: /api/auth/me answers for the session of the
\* cookie and setUser keeps the account
checkAuth ==
    /\ app.user = Anonymous
    /\ \E u \in SessionIds \ {Anonymous} : app' = [app EXCEPT !.user = u]
    /\ UNCHANGED <<users, generations, redis, today, keys, gen, login,
                   transactions, credits, deliveries, requests, pay, hook, image, loop, me>>

\* AuthContext.tsx lines 69-79: logout clears the session, setUser(null)
signOut ==
    /\ app.user # Anonymous
    /\ app' = [app EXCEPT !.user = Anonymous]
    /\ UNCHANGED <<users, generations, redis, today, keys, gen, login,
                   transactions, credits, deliveries, requests, pay, hook, image, loop, me>>

\* part_001 lines 26-37 and payment.go lines 634-642: the POST of
\* handleGenerate arrives at the generate-cover handler
handleGenerate_Post ==
    /\ ~app.isGenerating
    /\ gen["g1"].pc = "idle"
    /\ requests + deliveries < MaxCalls
    /\ requests' = requests + 1
    /\ app' = [app EXCEPT !.isGenerating = TRUE]
    /\ gen' = [gen EXCEPT !["g1"].pc = "check",
                          !["g1"].uid = sessionUserID(app.user, axiosPostCredentials)]
    /\ UNCHANGED <<users, generations, redis, today, keys, login,
                   transactions, credits, deliveries, pay, hook, image, loop, me>>

\* part_001 lines 39-79: the answer of the handler settles the awaited POST
handleGenerate_Answer ==
    /\ app.isGenerating
    /\ gen["g1"].pc = "done"
    /\ LET r == [status |-> gen["g1"].status, details |-> FALSE] IN
         app' = IF r.status = 200 THEN try(app, r) ELSE catch(app, r)
    /\ gen' = [gen EXCEPT !["g1"] = GenIdle]
    /\ UNCHANGED <<users, generations, redis, today, keys, login,
                   transactions, credits, deliveries, requests, pay, hook, image, loop, me>>

\* part_001 lines 82-94 and payment.go lines 503-555: the POST of
\* handlePurchase, for a package and a currency PackagesModal offers
handlePurchase(c) ==
    /\ pay[c].pc = "idle"
    /\ requests + deliveries < MaxCalls
    /\ requests' = requests + 1
    /\ \E ty \in PackageTypes \cap PackageInputs, cur \in {"RUB", "USD"} :
         PaymentCreate_Body(c, sessionUserID(app.user, fetchCredentials), ty, cur)
    /\ UNCHANGED <<users, generations, redis, today, keys, gen, login, deliveries,
                   hook, image, app, loop, me>>

(***************************************************************************)
(* pollNanoBananaTask attempt by attempt, payment.go lines 1009-1084: the  *)
(* provider chooses its answer anew at every poll.                         *)
(***************************************************************************)
Answers == WaitKinds \cup FinalKinds

\* variant: a failed task is polled again like one still processing
attemptIgnoringFail(l, a) ==
    IF a \in WaitKinds \/ a = "fail"
    THEN [l EXCEPT !.polls = @ + 1, !.answer = a, !.i = @ + 1]
    ELSE IF a = "success"
    THEN [l EXCEPT !.polls = @ + 1, !.answer = a, !.pc = "returned", !.ok = TRUE]
    ELSE [l EXCEPT !.polls = @ + 1, !.answer = a, !.pc = "returned",
                   !.err = PollError(a)]

\* lines 1013-1080, one pass of the loop body: sleep and continue on a
\* transport, read or parse error and on a task still processing; return
\* on a code other than 200, on success and on fail
attempt(l, a) ==
    IF a \in WaitKinds
    THEN [l EXCEPT !.polls = @ + 1, !.answer = a, !.i = @ + 1]
    ELSE IF a = "success"
    THEN [l EXCEPT !.polls = @ + 1, !.answer = a, !.pc = "returned", !.ok = TRUE]
    ELSE [l EXCEPT !.polls = @ + 1, !.answer = a, !.pc = "returned",
                   !.err = PollError(a)]

\* line 893: the call
pollNanoBananaTask_Call ==
    /\ loop.pc = "idle"
    /\ requests + deliveries < MaxCalls
    /\ requests' = requests + 1
    /\ loop' = [LoopIdle EXCEPT !.pc = "loop"]
    /\ UNCHANGED <<users, generations, redis, today, keys, gen, login,
                   transactions, credits, deliveries, pay, hook, image, app, me>>

\* line 1012 with i < maxAttempts, and the body
pollNanoBananaTask_Attempt ==
    /\ loop.pc = "loop"
    /\ loop.i < maxAttempts
    /\ \E a \in Answers : loop' = attempt(loop, a)
    /\ UNCHANGED <<users, generations, redis, today, keys, gen, login,
                   transactions, credits, deliveries, requests, pay, hook,
                   image, app, me>>

\* line 1012 with i = maxAttempts, and line 1083
pollNanoBananaTask_Timeout ==
    /\ loop.pc = "loop"
    /\ loop.i >= maxAttempts
    /\ loop' = [loop EXCEPT !.pc = "returned", !.err = "task timeout"]
    /\ UNCHANGED <<users, generations, redis, today, keys, gen, login,
                   transactions, credits, deliveries, requests, pay, hook,
                   image, app, me>>

\* the caller has taken the result, lines 893-900
pollNanoBananaTask_Return ==
    /\ loop.pc = "returned"
    /\ loop' = LoopIdle
    /\ UNCHANGED <<users, generations, redis, today, keys, gen, login,
                   transactions, credits, deliveries, requests, pay, hook,
                   image, app, me>>

(***************************************************************************)
(* GET /api/auth/me, payment.go lines 423-459                              *)
(***************************************************************************)
\* lines 448-458: can_generate and generations_remaining from the row
\* CheckGenerationLimit holds, the two counters from the handler's own read
meResponse(m, row) ==
    [m EXCEPT !.pc = "done", !.status = 200, !.ledger = TRUE,
              !.can_generate = canGenerateOf(row),
              !.generations_remaining = remainingOf(row),
              !.free_generations_left = m.user.free,
              !.paid_generations = m.user.paid,
              !.user = NoUser, !.copy = NoUser]

\* lines 424-445: session, then db.Where("id = ?").First(&user)
Me_First ==
    /\ me.pc = "idle"
    /\ requests + deliveries < MaxCalls
    /\ requests' = requests + 1
    /\ \E u \in SessionIds :
         me' = IF u = Anonymous
               THEN [MeIdle EXCEPT !.pc = "done", !.status = 401]
               ELSE IF ~RowOf(u).exists
               THEN [MeIdle EXCEPT !.pc = "done", !.status = 200, !.uid = u]
               ELSE [MeIdle EXCEPT !.pc = "check", !.uid = u, !.user = RowOf(u)]
    /\ UNCHANGED <<users, generations, redis, today, keys, gen, login,
                   transactions, credits, deliveries, pay, hook, image, app,
                   loop>>

\* CheckGenerationLimit line 115, called at handler line 448, then the
\* reset on the copy; its error is dropped by the handler
Me_CheckGenerationLimit_First ==
    /\ me.pc = "check"
    /\ LET row == RowOf(me.uid) IN
         me' = IF ~row.exists
               THEN meResponse(me, NoUser)
               ELSE IF Before(row.last, today)
               THEN [me EXCEPT !.pc = "check_save",
                               !.copy = ResetIfNewDay(row, today)]
               ELSE meResponse(me, row)
    /\ UNCHANGED <<users, generations, redis, today, keys, gen, login,
                   transactions, credits, deliveries, requests, pay, hook,
                   image, app, loop>>

\* CheckGenerationLimit line 127: db.Save(&user), then the answer
Me_CheckGenerationLimit_Save ==
    /\ me.pc = "check_save"
    /\ users' = [users EXCEPT ![me.uid] = me.copy]
    /\ me' = meResponse(me, me.copy)
    /\ UNCHANGED <<generations, redis, today, keys, gen, login,
                   transactions, credits, deliveries, requests, pay, hook,
                   image, app, loop>>

MeClose ==
    /\ me.pc = "done"
    /\ me' = MeIdle
    /\ UNCHANGED <<users, generations, redis, today, keys, gen, login,
                   transactions, credits, deliveries, requests, pay, hook,
                   image, app, loop>>

(***************************************************************************)
(* Specifications.  Spec runs every handler, with one generate-cover       *)
(* request at a time; SpecGen runs two generate-cover requests side by     *)
(* side; SpecPay runs the payment handlers.                                *)
(***************************************************************************)
Next ==
    \/ NextDay
    \/ RedisTick
    \/ \E l \in LoginProcs : LoginStart(l)
    \/ \E l \in LoginProcs : GetOrCreateUser_First(l)
    \/ \E l \in LoginProcs : GetOrCreateUser_Create(l)
    \/ \E l \in LoginProcs : GetOrCreateUser_Save(l)
    \/ \E l \in LoginProcs : LoginClose(l)
    \/ GenStart("g1")
    \/ CheckGenerationLimit_First("g1")
    \/ CheckGenerationLimit_Save("g1")
    \/ DetermineCredit("g1")
    \/ Stage("g1")
    \/ Submit("g1")
    \/ Poll("g1")
    \/ OpenAI("g1")
    \/ Persist("g1")
    \/ UseGeneration_First("g1")
    \/ UseGeneration_Save("g1")
    \/ Record("g1")
    \/ GenClose("g1")
    \/ \E c \in PayProcs : PaymentCreate_Create(c)
    \/ \E c \in PayProcs : createLavaTopOrder(c)
    \/ \E c \in PayProcs : PaymentCreate_Save(c)
    \/ \E c \in PayProcs : PayClose(c)
    \/ \E w \in HookProcs : Webhook_First(w)
    \/ \E w \in HookProcs : Webhook_Save(w)
    \/ \E w \in HookProcs : AddPaidGenerations_First(w)
    \/ \E w \in HookProcs : AddPaidGenerations_Save(w)
    \/ \E w \in HookProcs : HookClose(w)
    \/ GetImage
    \/ ImageClose
    \/ handleGenerate
    \/ handleGenerate_Settle
    \/ OpenPackages
    \/ ClosePackages
    \/ ClearCover
    \/ pollNanoBananaTask_Call
    \/ pollNanoBananaTask_Attempt
    \/ pollNanoBananaTask_Timeout
    \/ pollNanoBananaTask_Return
    \/ Me_First
    \/ Me_CheckGenerationLimit_First
    \/ Me_CheckGenerationLimit_Save
    \/ MeClose

Spec == Init /\ [][Next]_vars

\* the state once the OAuth callback has, or has not yet, created the account
InitGen ==
    /\ \E row \in {NoUser, FreshUser} :
          users = [u \in UserIds |-> IF u \in Visitors THEN row ELSE NoUser]
    /\ generations = <<>>
    /\ redis = <<>>
    /\ today = 1
    /\ keys \in SUBSET {"nanobanana", "openai"}
    /\ gen = [p \in GenProcs |-> GenIdle]
    /\ login = [l \in LoginProcs |-> LoginIdle]
    /\ transactions = <<>>
    /\ credits = <<>>
    /\ deliveries = 0
    /\ requests = 0
    /\ pay = [c \in PayProcs |-> PayIdle]
    /\ hook = [w \in HookProcs |-> HookIdle]
    /\ image = ImageIdle
    /\ app = AppIdle
    /\ loop = LoopIdle
    /\ me = MeIdle

NextGen ==
    \/ NextDay
    \/ RedisTick
    \/ \E p \in GenProcs : GenStart(p)
    \/ \E p \in GenProcs : CheckGenerationLimit_First(p)
    \/ \E p \in GenProcs : CheckGenerationLimit_Save(p)
    \/ \E p \in GenProcs : DetermineCredit(p)
    \/ \E p \in GenProcs : Stage(p)
    \/ \E p \in GenProcs : Submit(p)
    \/ \E p \in GenProcs : Poll(p)
    \/ \E p \in GenProcs : OpenAI(p)
    \/ \E p \in GenProcs : Persist(p)
    \/ \E p \in GenProcs : UseGeneration_First(p)
    \/ \E p \in GenProcs : UseGeneration_Save(p)
    \/ \E p \in GenProcs : Record(p)
    \/ \E p \in GenProcs : GenClose(p)

SpecGen == InitGen /\ [][NextGen]_vars

\* the state once the OAuth callback has, or has not yet, created the account
InitPay ==
    /\ users \in [UserIds -> {NoUser, FreshUser}]
    /\ generations = <<>>
    /\ redis = <<>>
    /\ today = 1
    /\ keys = {"nanobanana", "openai"}
    /\ gen = [p \in GenProcs |-> GenIdle]
    /\ login = [l \in LoginProcs |-> LoginIdle]
    /\ transactions = <<>>
    /\ credits = <<>>
    /\ deliveries = 0
    /\ requests = 0
    /\ pay = [c \in PayProcs |-> PayIdle]
    /\ hook = [w \in HookProcs |-> HookIdle]
    /\ image = ImageIdle
    /\ app = AppIdle
    /\ loop = LoopIdle
    /\ me = MeIdle

NextPay ==
    \/ \E c \in PayProcs : PaymentCreate_Create(c)
    \/ \E c \in PayProcs : createLavaTopOrder(c)
    \/ \E c \in PayProcs : PaymentCreate_Save(c)
    \/ \E c \in PayProcs : PayClose(c)
    \/ \E w \in HookProcs : Webhook_First(w)
    \/ \E w \in HookProcs : Webhook_Save(w)
    \/ \E w \in HookProcs : AddPaidGenerations_First(w)
    \/ \E w \in HookProcs : AddPaidGenerations_Save(w)
    \/ \E w \in HookProcs : HookClose(w)

SpecPay == InitPay /\ [][NextPay]_vars

(***************************************************************************)
(* SpecPayFault is SpecPay with a database that may fail in                *)
(* AddPaidGenerations.                                                     *)
(***************************************************************************)
NextPayFault ==
    \/ \E c \in PayProcs : PaymentCreate_Create(c)
    \/ \E c \in PayProcs : createLavaTopOrder(c)
    \/ \E c \in PayProcs : PaymentCreate_Save(c)
    \/ \E c \in PayProcs : PayClose(c)
    \/ \E w \in HookProcs : Webhook_First(w)
    \/ \E w \in HookProcs : Webhook_Save(w)
    \/ \E w \in HookProcs : AddPaidGenerations_First(w)
    \/ \E w \in HookProcs : AddPaidGenerations_Save(w)
    \/ \E w \in HookProcs : AddPaidGenerations_Error(w)
    \/ \E w \in HookProcs : HookClose(w)

SpecPayFault == InitPay /\ [][NextPayFault]_vars

(***************************************************************************)
(* SpecOne runs one generate-cover request at a time, on either provider.  *)
(***************************************************************************)
NextOne ==
    \/ NextDay
    \/ RedisTick
    \/ GenStart("g1")
    \/ CheckGenerationLimit_First("g1")
    \/ CheckGenerationLimit_Save("g1")
    \/ DetermineCredit("g1")
    \/ Stage("g1")
    \/ Submit("g1")
    \/ Poll("g1")
    \/ OpenAI("g1")
    \/ Persist("g1")
    \/ UseGeneration_First("g1")
    \/ UseGeneration_Save("g1")
    \/ Record("g1")
    \/ GenClose("g1")

SpecOne == InitGen /\ [][NextOne]_vars

(***************************************************************************)
(* SpecLedger interleaves every writer of one account's row: the day       *)
(* reset, the settlement, the purchase credit and the profile refresh.     *)
(* It starts after u1 has signed in and ordered pack1, on a deployment     *)
(* with the OpenAI key only, so every generation is one synchronous call.  *)
(***************************************************************************)
InitLedger ==
    /\ users = [u \in UserIds |-> IF u \in Visitors THEN FreshUser ELSE NoUser]
    /\ generations = <<>>
    /\ redis = <<>>
    /\ today = 1
    /\ keys = {"openai"}
    /\ gen = [p \in GenProcs |-> GenIdle]
    /\ login = [l \in LoginProcs |-> LoginIdle]
    /\ transactions = <<[user |-> "u1", pkg |-> "pack1",
                         amount |-> AmountFor("pack1", "RUB"), currency |-> "RUB",
                         status |-> "pending", order |-> OrderRef(1)]>>
    /\ credits = <<0>>
    /\ deliveries = 0
    /\ requests = 0
    /\ pay = [c \in PayProcs |-> PayIdle]
    /\ hook = [w \in HookProcs |-> HookIdle]
    /\ image = ImageIdle
    /\ app = AppIdle
    /\ loop = LoopIdle
    /\ me = MeIdle

NextLedger ==
    \/ NextDay
    \/ \E l \in LoginProcs : LoginStart(l)
    \/ \E l \in LoginProcs : GetOrCreateUser_First(l)
    \/ \E l \in LoginProcs : GetOrCreateUser_Save(l)
    \/ \E l \in LoginProcs : LoginClose(l)
    \/ GenStart("g1")
    \/ CheckGenerationLimit_First("g1")
    \/ CheckGenerationLimit_Save("g1")
    \/ DetermineCredit("g1")
    \/ OpenAI("g1")
    \/ Persist("g1")
    \/ UseGeneration_First("g1")
    \/ UseGeneration_Save("g1")
    \/ Record("g1")
    \/ GenClose("g1")
    \/ \E w \in HookProcs : Webhook_First(w)
    \/ \E w \in HookProcs : Webhook_Save(w)
    \/ \E w \in HookProcs : AddPaidGenerations_First(w)
    \/ \E w \in HookProcs : AddPaidGenerations_Save(w)
    \/ \E w \in HookProcs : HookClose(w)

SpecLedger == InitLedger /\ [][NextLedger]_vars

(***************************************************************************)
(* SpecLogin runs the OAuth callback, which creates or refreshes the       *)
(* account, next to generate-cover requests of the same account on a       *)
(* deployment with the OpenAI key only.                                    *)
(***************************************************************************)
InitLogin ==
    /\ \E row \in {NoUser, FreshUser} :
          users = [u \in UserIds |-> IF u \in Visitors THEN row ELSE NoUser]
    /\ generations = <<>>
    /\ redis = <<>>
    /\ today = 1
    /\ keys = {"openai"}
    /\ gen = [p \in GenProcs |-> GenIdle]
    /\ login = [l \in LoginProcs |-> LoginIdle]
    /\ transactions = <<>>
    /\ credits = <<>>
    /\ deliveries = 0
    /\ requests = 0
    /\ pay = [c \in PayProcs |-> PayIdle]
    /\ hook = [w \in HookProcs |-> HookIdle]
    /\ image = ImageIdle
    /\ app = AppIdle
    /\ loop = LoopIdle
    /\ me = MeIdle

NextLogin ==
    \/ NextDay
    \/ \E l \in LoginProcs : LoginStart(l)
    \/ \E l \in LoginProcs : GetOrCreateUser_First(l)
    \/ \E l \in LoginProcs : GetOrCreateUser_Create(l)
    \/ \E l \in LoginProcs : GetOrCreateUser_Save(l)
    \/ \E l \in LoginProcs : LoginClose(l)
    \/ GenStart("g1")
    \/ CheckGenerationLimit_First("g1")
    \/ CheckGenerationLimit_Save("g1")
    \/ DetermineCredit("g1")
    \/ OpenAI("g1")
    \/ Persist("g1")
    \/ UseGeneration_First("g1")
    \/ UseGeneration_Save("g1")
    \/ Record("g1")
    \/ GenClose("g1")

SpecLogin == InitLogin /\ [][NextLogin]_vars

(***************************************************************************)
(* SpecPoll runs the poll loop attempt by attempt.  Every pass of the loop *)
(* ends: the HTTP client of a poll has a 10 second timeout (line 1020) and *)
(* the sleep between polls is 5 seconds, hence the weak fairness.          *)
(***************************************************************************)
NextPoll ==
    \/ pollNanoBananaTask_Call
    \/ pollNanoBananaTask_Attempt
    \/ pollNanoBananaTask_Timeout
    \/ pollNanoBananaTask_Return

SpecPoll ==
    /\ Init
    /\ [][NextPoll]_vars
    /\ WF_vars(pollNanoBananaTask_Attempt)
    /\ WF_vars(pollNanoBananaTask_Timeout)

(***************************************************************************)
(* SpecStatus runs the user status query next to generate-cover requests   *)
(* of the same account, on a deployment with the OpenAI key only.          *)
(***************************************************************************)
NextStatus ==
    \/ NextDay
    \/ Me_First
    \/ Me_CheckGenerationLimit_First
    \/ Me_CheckGenerationLimit_Save
    \/ MeClose
    \/ GenStart("g1")
    \/ CheckGenerationLimit_First("g1")
    \/ CheckGenerationLimit_Save("g1")
    \/ DetermineCredit("g1")
    \/ OpenAI("g1")
    \/ Persist("g1")
    \/ UseGeneration_First("g1")
    \/ UseGeneration_Save("g1")
    \/ Record("g1")
    \/ GenClose("g1")

SpecStatus == InitLogin /\ [][NextStatus]_vars

(***************************************************************************)
(* SpecImage serves staged images while one generate-cover request at a    *)
(* time stages, submits, polls and cleans up.                              *)
(***************************************************************************)
NextImage ==
    \/ NextDay
    \/ RedisTick
    \/ GenStart("g1")
    \/ CheckGenerationLimit_First("g1")
    \/ CheckGenerationLimit_Save("g1")
    \/ DetermineCredit("g1")
    \/ Stage("g1")
    \/ Submit("g1")
    \/ Poll("g1")
    \/ OpenAI("g1")
    \/ Persist("g1")
    \/ UseGeneration_First("g1")
    \/ UseGeneration_Save("g1")
    \/ Record("g1")
    \/ GenClose("g1")
    \/ GetImage
    \/ ImageClose

SpecImage == InitGen /\ [][NextImage]_vars

(***************************************************************************)
(* SpecClient runs the App component against the answers the backend can   *)
(* give.                                                                   *)
(***************************************************************************)
NextClient ==
    \/ handleGenerate
    \/ handleGenerate_Settle
    \/ OpenPackages
    \/ ClosePackages
    \/ ClearCover

SpecClient == Init /\ [][NextClient]_vars

(***************************************************************************)
(* SpecBrowser runs the page against the backend: the requests of the      *)
(* handlers are those the page sends.  Of the generate-cover handler only  *)
(* the limit check is listed, the step every such request ends at.         *)
(***************************************************************************)
NextBrowser ==
    \/ checkAuth
    \/ signOut
    \/ handleGenerate_Post
    \/ CheckGenerationLimit_First("g1")
    \/ handleGenerate_Answer
    \/ \E c \in PayProcs : handlePurchase(c)
    \/ \E c \in PayProcs : createLavaTopOrder(c)
    \/ \E c \in PayProcs : PaymentCreate_Save(c)
    \/ \E c \in PayProcs : PayClose(c)
    \/ OpenPackages
    \/ ClosePackages

SpecBrowser == InitPay /\ [][NextBrowser]_vars

(***************************************************************************)
(* Properties                                                              *)
(***************************************************************************)
Terminal(status) == status \in {"completed", "failed"}

\* credits of the packages user u has ordered, over transactions 1..n
RECURSIVE OrderedCredits(_, _)
OrderedCredits(u, n) ==
    IF n = 0 THEN 0
    ELSE OrderedCredits(u, n - 1)
         + (IF transactions[n].user = u THEN CountOf(transactions[n].pkg) ELSE 0)

\* C1: however often the notification of an order is delivered, the paid
\* balance of the owner grows by the package's credit count once per order:
\* with no generation running (SpecPay), the balance never exceeds the
\* credits of the packages the account has ordered.
C1_CreditedOncePerOrder ==
    \A u \in UserIds : users[u].paid <= OrderedCredits(u, Len(transactions))

\* C2: a webhook handler that found its transaction already completed or
\* failed changes neither the status of the transaction nor any balance.
C2_TerminalStatusAbsorbing ==
    [][\A w \in HookProcs :
          (hook'[w] # hook[w] /\ Terminal(hook[w].found)) =>
             /\ transactions'[hook[w].txn].status = transactions[hook[w].txn].status
             /\ users' = users]_vars

\* C3: the generations of an account that settle a credit never outnumber
\* the credits the account held.  Without purchases (SpecGen) the account
\* holds one free credit per calendar day reached, so the requests in
\* flight have settled at most `today' credits.
C3_NoDoubleSpend ==
    gen["g1"].debits + gen["g2"].debits <= today

\* C4: when a generate-cover request has answered, it has written a
\* generation record if and only if it has debited exactly one credit.
C4_RecordIffDebit ==
    \A p \in GenProcs :
        gen[p].pc = "done" => (gen[p].records = 1 <=> gen[p].debits = 1)

\* C5: a generate-cover request that answers with an error (any status but
\* 200, or a generation error) has debited no credit and written no
\* generation record.
C5_NoDebitOnFailure ==
    \A p \in GenProcs :
        (gen[p].pc = "done" /\ (gen[p].status # 200 \/ gen[p].err # "nil")) =>
            gen[p].debits = 0 /\ gen[p].records = 0

\* a request that failed in the poll loop, after staging and submitting
C5_Witness ==
    \E p \in GenProcs :
        /\ gen[p].pc = "done"
        /\ gen[p].err = "task timeout"
        /\ gen[p].polls = maxAttempts
        /\ users[gen[p].uid].free = 1

\* C6: FreeGenerationsLeft and PaidGenerations of every account are never
\* negative, whatever the interleaving of the limit check, the settlement,
\* the purchase credit and the profile refresh.
C6_BalancesNonNegative ==
    \A u \in UserIds : users[u].free >= 0 /\ users[u].paid >= 0

\* an account drained to nothing by a settlement after a purchase was
\* credited and overwritten
C6_Witness ==
    /\ users["u1"].free = 0
    /\ users["u1"].paid = 0
    /\ credits[1] > 0
    /\ gen["g1"].debits = 1

\* C7: when a generate-cover request has answered after staging its image,
\* it has issued the Redis Del of that image on every outcome and the key
\* is gone; and no key is reachable once its 30 minutes have elapsed.
C7_StagedImageReclaimed ==
    /\ \A p \in GenProcs :
          (gen[p].pc = "done" /\ gen[p].puts > 0) =>
              gen[p].dels = gen[p].puts /\ p \notin DOMAIN redis
    /\ \A k \in DOMAIN redis : redis[k].age < StagingTTL

\* a request that staged and then lost the poll loop to the timeout, while
\* the image of the other request is still staged
C7_Witness ==
    \E p \in GenProcs :
        /\ gen[p].pc = "done"
        /\ gen[p].puts = 1
        /\ gen[p].err = "task timeout"
        /\ DOMAIN redis # {}

\* FreeGenerationsLeft as UseGeneration sees it after its day reset
EffectiveFree(row, day) == IF Before(row.last, day) THEN 1 ELSE row.free

\* C8 (as claimed): a free settlement (isFree) on an account with no free
\* generation left and a positive paid balance succeeds and decrements the
\* paid balance; it fails only when both counters are 0.
C8_FreeSettlementFallsBackToPaid ==
    [][\A p \in GenProcs :
          LET row == RowOf(gen[p].uid) IN
          (gen[p].pc = "use" /\ gen'[p].pc # "use" /\ gen[p].useFree) =>
             /\ (EffectiveFree(row, today) = 0 /\ row.paid > 0) =>
                   /\ gen'[p].pc = "use_save"
                   /\ gen'[p].user.paid = row.paid - 1
             /\ gen'[p].pc = "record" =>
                   (EffectiveFree(row, today) = 0 /\ row.paid = 0)]_vars

\* C8 (amended): UseGeneration debits only the counter its isFree flag
\* names.  With isFree it decrements FreeGenerationsLeft (after the day
\* reset) and fails when that is 0, whatever the paid balance; without
\* isFree it decrements PaidGenerations and fails when that is 0.
C8_SettlesTheNamedCounter ==
    [][\A p \in GenProcs :
          LET row == RowOf(gen[p].uid) IN
          (gen[p].pc = "use" /\ gen'[p].pc # "use") =>
             IF gen[p].useFree
             THEN IF EffectiveFree(row, today) > 0
                  THEN /\ gen'[p].pc = "use_save"
                       /\ gen'[p].user.free = EffectiveFree(row, today) - 1
                       /\ gen'[p].user.paid = row.paid
                  ELSE /\ gen'[p].pc = "record"
                       /\ users' = users
             ELSE IF row.paid > 0
                  THEN /\ gen'[p].pc = "use_save"
                       /\ gen'[p].user.paid = row.paid - 1
                       /\ gen'[p].user.free = row.free
                  ELSE /\ gen'[p].pc = "record"
                       /\ users' = users]_vars

\* a free settlement has just failed on an account whose free generation
\* of the day is spent and whose paid balance is positive
C8_Witness ==
    \E p \in GenProcs :
        /\ gen[p].pc = "record"
        /\ gen[p].debits = 0
        /\ gen[p].useFree
        /\ RowOf(gen[p].uid).free = 0
        /\ RowOf(gen[p].uid).last = today
        /\ RowOf(gen[p].uid).paid > 0

\* C9: a request that finds both a free generation and a paid balance on
\* the account settles with the free one: useFree is set, a successful
\* settlement writes FreeGenerationsLeft = 0 and the paid balance it read,
\* and the generation record is marked free.
C9_FreePreferred ==
    [][\A p \in GenProcs :
          LET row == RowOf(gen[p].uid) IN
          /\ (gen[p].pc = "determine" /\ gen'[p].pc \in {"stage", "openai"}
                /\ row.free > 0 /\ row.paid > 0) => gen'[p].useFree
          /\ (gen[p].pc = "use" /\ gen'[p].pc = "use_save" /\ gen[p].useFree) =>
                gen'[p].user.free = 0 /\ gen'[p].user.paid = row.paid
          /\ (gen[p].pc = "use_save" /\ gen'[p].pc = "record") =>
                users'[gen[p].uid] = gen[p].user
          /\ (gen[p].pc = "record" /\ gen'[p].pc = "done") =>
                generations'[Len(generations')].isFree = gen[p].useFree]_vars

\* the settlement of a request has read an account holding a free
\* generation and ten paid ones: its copy spends the free one and keeps ten
C9_Witness ==
    /\ gen["g1"].pc = "use_save"
    /\ gen["g1"].useFree
    /\ users["u1"].free = 1
    /\ users["u1"].paid = CountOf("pack1")
    /\ gen["g1"].user.free = 0
    /\ gen["g1"].user.paid = CountOf("pack1")

\* C10: a request of an account with no free generation left today and no
\* paid balance is answered 402 at the gate; a request answered 402 has
\* staged nothing and has called no provider.
C10_NoCreditsStopsAtGate ==
    [][\A p \in GenProcs :
          LET row == RowOf(gen[p].uid) IN
          /\ (gen[p].pc = "check" /\ gen'[p].pc # "check" /\ row.exists
                /\ ~Before(row.last, today) /\ row.free = 0 /\ row.paid = 0) =>
                /\ gen'[p].pc = "done"
                /\ gen'[p].status = 402
                /\ redis' = redis
          /\ (gen'[p].pc = "done" /\ gen'[p].status = 402) =>
                /\ gen'[p].puts = 0
                /\ gen'[p].submits = 0
                /\ gen'[p].polls = 0
                /\ gen'[p].debits = 0
                /\ gen'[p].records = 0]_vars

\* the account has spent today's free generation, has no paid balance, and
\* its request has been answered 402
C10_Witness ==
    \E p \in GenProcs :
        /\ gen[p].pc = "done"
        /\ gen[p].status = 402
        /\ gen[p].remaining = 0
        /\ RowOf(gen[p].uid).exists
        /\ RowOf(gen[p].uid).free = 0
        /\ RowOf(gen[p].uid).paid = 0
        /\ RowOf(gen[p].uid).last = today

\* credits of the packages credited to user u, over transactions 1..n
RECURSIVE CreditedTo(_, _)
CreditedTo(u, n) ==
    IF n = 0 THEN 0
    ELSE CreditedTo(u, n - 1)
         + (IF transactions[n].user = u
            THEN credits[n] * CountOf(transactions[n].pkg) ELSE 0)

\* C11: the balances are those of some serial order of the ledger
\* operations.  In every serial order each purchase credit adds the package
\* count and each settlement takes at most one credit, so the paid balance
\* of an account is never below the counts credited to it minus the
\* requests received, and never above the counts credited to it.
C11_BalanceOfSomeSerialOrder ==
    \A u \in UserIds :
        /\ users[u].paid >= CreditedTo(u, Len(transactions)) - requests
        /\ users[u].paid <= CreditedTo(u, Len(transactions))

\* C12: a step that changes the paid balance of an account is a successful
\* settlement writing the balance less one, or a purchase credit writing
\* the balance plus the package count; the day reset of the limit check
\* and the profile refresh never change it.
C12_PaidChangesBySettlementOrPurchase ==
    [][\A u \in UserIds :
          users'[u].paid # users[u].paid =>
             \/ \E p \in GenProcs :
                   /\ gen[p].pc = "use_save" /\ gen'[p].pc = "record"
                   /\ gen[p].uid = u
                   /\ users'[u].paid = users[u].paid - 1
             \/ \E w \in HookProcs :
                   /\ hook[w].pc = "add_save" /\ hook'[w].pc = "done"
                   /\ hook[w].row.user = u
                   /\ users'[u].paid = users[u].paid + CountOf(hook[w].row.pkg)]_vars

C14_OneFreeAllotmentPerDay ==
    [][/\ \A u \in UserIds :
             (users[u].exists /\ users[u].free = 0 /\ users[u].last = today
                 /\ today' = today) => users'[u].free = 0
       /\ \A p \in GenProcs :
             LET row == RowOf(gen[p].uid) IN
             (gen[p].pc = "check" /\ gen'[p].pc # "check" /\ row.exists
                 /\ Before(row.last, today)) =>
                    gen'[p].pc = "check_save" /\ gen'[p].user.free = 1]_vars

\* the loop against a provider that answers `waiting' to polls 1..119 and
\* `success' from poll 120 on
SuccessAtCeiling ==
    pollNanoBananaTask([lead |-> maxAttempts - 1, wait |-> "waiting",
                        final |-> "success"], maxAttempts)

\* the loop against a provider that answers `waiting' to polls 1..120
WaitingThroughout ==
    pollNanoBananaTask([lead |-> maxAttempts, wait |-> "waiting",
                        final |-> "success"], maxAttempts)

\* C15: the poll loop succeeds exactly at the ceiling.  Against a provider
\* that answers `waiting' to polls 1..119 and `success' to poll 120 the
\* loop succeeds with its 120th poll; against one that answers `waiting'
\* to all 120 polls it reports the timeout; no outcome of the loop, and no
\* request, has issued more than 120 polls.
C15_SucceedsExactlyAtCeiling ==
    /\ SuccessAtCeiling = [ok |-> TRUE, err |-> "nil", polls |-> maxAttempts]
    /\ WaitingThroughout = [ok |-> FALSE, err |-> "task timeout", polls |-> maxAttempts]
    /\ \A r \in PollResults : r.polls <= maxAttempts
    /\ \A p \in GenProcs :
          /\ gen[p].polls <= maxAttempts
          /\ gen[p].err = "task timeout" => gen[p].polls = maxAttempts

\* a request whose 120th poll was answered `success' goes on to persist
\* the result
C15_Witness ==
    \E p \in GenProcs :
        /\ gen[p].pc = "persist"
        /\ gen[p].polls = maxAttempts
        /\ gen[p].err = "nil"

\* C16: happy path.  A request of an account holding its free generation
\* that staged a valid image and whose first poll was answered `success'
\* is answered 200 with FreeGenerationsLeft = 0, one credit debited, one
\* generation record written for it (the last of the table, marked free),
\* and its staged image removed from Redis.  One request runs at a time.
C16_HappyPath ==
    \A p \in GenProcs :
        (gen[p].pc = "done" /\ gen[p].puts = 1 /\ gen[p].polls = 1
            /\ gen[p].err = "nil") =>
           /\ gen[p].status = 200
           /\ users[gen[p].uid].free = 0
           /\ gen[p].debits = 1
           /\ gen[p].records = 1
           /\ Len(generations) >= 1
           /\ generations[Len(generations)].user = gen[p].uid
           /\ generations[Len(generations)].isFree
           /\ gen[p].dels = 1
           /\ p \notin DOMAIN redis

\* the request has been answered 200 after one poll, the account's free
\* generation is spent and stamped today
C16_Witness ==
    /\ gen["g1"].pc = "done"
    /\ gen["g1"].status = 200
    /\ gen["g1"].puts = 1
    /\ gen["g1"].polls = 1
    /\ gen["g1"].records = 1
    /\ users["u1"].free = 0
    /\ users["u1"].last = today
    /\ Len(generations) = 1

\* C17: a notification for a pending transaction with status `success' or
\* `completed' marks it completed and adds the count of the transaction's
\* package to the paid balance of the transaction's user, leaving every
\* other account as it was; any other status marks it failed and changes
\* no balance.
C17_PendingSettlement ==
    [][\A w \in HookProcs :
          hook[w].found = "pending" =>
             /\ (hook[w].pc = "save" /\ hook'[w].pc # "save") =>
                   /\ users' = users
                   /\ IF hook[w].notified \in {"success", "completed"}
                      THEN /\ transactions'[hook[w].txn].status = "completed"
                           /\ hook'[w].pc = "add"
                      ELSE /\ transactions'[hook[w].txn].status = "failed"
                           /\ hook'[w].pc = "done"
             /\ (hook[w].pc = "add" /\ hook'[w].pc # "add") =>
                   /\ users' = users
                   /\ hook'[w].pc = "add_save"
             /\ (hook[w].pc = "add_save" /\ hook'[w].pc # "add_save") =>
                   LET owner == transactions[hook[w].txn].user IN
                   /\ users'[owner].paid =
                         users[owner].paid + CountOf(transactions[hook[w].txn].pkg)
                   /\ \A u \in UserIds \ {owner} : users'[u] = users[u]]_vars

\* a `completed' notification for u2's pending pack2 order: the
\* transaction is marked completed and the copy about to be saved holds
\* 30 more paid generations, while u1's account exists beside it
C17_Witness ==
    \E w \in HookProcs :
        /\ hook[w].pc = "add_save"
        /\ hook[w].found = "pending"
        /\ hook[w].notified = "completed"
        /\ transactions[hook[w].txn].status = "completed"
        /\ transactions[hook[w].txn].user = "u2"
        /\ transactions[hook[w].txn].pkg = "pack2"
        /\ hook[w].user.paid = users["u2"].paid + 30
        /\ users["u1"].exists

\* C18: purchase intents do not interact: a payment-create request of a
\* signed-in user for a package of the catalog creates its transaction
\* whatever other transactions exist, so the only rejections at creation
\* are 401 (no session) and 400 (unknown package).
C18_IntentsIndependent ==
    [][\A c \in PayProcs :
          (pay[c].pc = "idle" /\ pay'[c].pc = "done") =>
             pay'[c].status \in {401, 400}]_vars

\* C19: a payment-create request is answered 200 only by the step that
\* saves the transaction with the invoice id the gateway issued for it:
\* the transaction then belongs to the requesting user, is pending and
\* carries that invoice id, and no account has changed.
C19_SuccessMeansPendingIntent ==
    [][\A c \in PayProcs :
          /\ (pay'[c].status = 200 /\ pay[c].status # 200) => pay[c].pc = "save"
          /\ (pay[c].pc = "save" /\ pay'[c].pc # "save") =>
                /\ pay'[c].status = 200
                /\ transactions'[pay[c].txn].user = pay[c].uid
                /\ transactions'[pay[c].txn].status = "pending"
                /\ transactions'[pay[c].txn].order = OrderRef(pay[c].txn)
                /\ users' = users]_vars

\* u2's request has been answered 200 and its transaction is pending
\* under the invoice id issued for it
C19_Witness ==
    \E c \in PayProcs :
        /\ pay[c].pc = "done"
        /\ pay[c].status = 200
        /\ pay[c].uid = "u2"
        /\ transactions[pay[c].txn].user = "u2"
        /\ transactions[pay[c].txn].status = "pending"
        /\ transactions[pay[c].txn].order = OrderRef(pay[c].txn)
        /\ users["u2"].paid = 0

\* C20: every transaction records, as its amount, the price of its package
\* in the currency it records: PriceRUB with RUB, PriceUSD with USD, and
\* no other pairing.
C20_AmountInRecordedCurrency ==
    \A t \in TxnIds :
        LET pkg == CHOOSE q \in Packages : q.type = transactions[t].pkg IN
        \/ /\ transactions[t].currency = "RUB"
           /\ transactions[t].amount = pkg.priceRUB
        \/ /\ transactions[t].currency = "USD"
           /\ transactions[t].amount = pkg.priceUSD

\* C21: a payment-create request whose package_type is not in the catalog
\* is answered with an error and has no effect: every transaction, and
\* every request that has reached the gateway call, names a catalog
\* package, and the step that answers 400 leaves the transactions and the
\* accounts as they were.
C21_UnknownPackageRejected ==
    /\ \A t \in TxnIds : transactions[t].pkg \in {q.type : q \in Packages}
    /\ \A c \in PayProcs :
          /\ pay[c].pc \in {"lava", "save"} =>
                pay[c].row.pkg \in {q.type : q \in Packages}
          /\ (pay[c].pc = "done" /\ pay[c].status \in {400, 401}) => pay[c].txn = 0

\* a signed-in user's request for an unknown package has been answered
\* 400 while an earlier transaction of a catalog package exists
C21_Witness ==
    \E c \in PayProcs :
        /\ pay[c].pc = "done"
        /\ pay[c].status = 400
        /\ pay[c].uid \in UserIds
        /\ pay[c].txn = 0
        /\ Len(transactions) = 1

\* C22: a notification whose order_id matches no transaction is answered
\* 404 and changes nothing: the step that receives a notification writes
\* no transaction and no account, it ends with 404 without going on, and
\* a notification that does go on holds a transaction whose invoice id is
\* the order_id it named.
C22_UnmatchedNotificationIsNoOp ==
    [][\A w \in HookProcs :
          (hook[w].pc = "idle" /\ hook'[w].pc # "idle") =>
             /\ transactions' = transactions
             /\ users' = users
             /\ credits' = credits
             /\ hook'[w].pc \in {"done", "save"}
             /\ hook'[w].pc = "done" =>
                   (hook'[w].status = 404 /\ hook'[w].txn = 0)
             /\ hook'[w].pc = "save" =>
                   /\ hook'[w].txn \in TxnIds
                   /\ transactions[hook'[w].txn].order = hook'[w].order]_vars

\* a notification has been answered 404 while a pending transaction with
\* an invoice id waits
C22_Witness ==
    \E w \in HookProcs :
        /\ hook[w].pc = "done"
        /\ hook[w].status = 404
        /\ \E t \in TxnIds : /\ transactions[t].status = "pending"
                             /\ transactions[t].order # 0
        /\ \A t \in TxnIds : credits[t] = 0

\* C23: when the provider has produced a result and storing it locally
\* fails, the request is still answered 200 with the provider's URL: the
\* persistence step never sets an error, it hands either the local or the
\* provider's URL to the settlement, the URL stays as it is until the
\* answer, and an answer that carries the provider's URL is a 200.
C23_PersistFailureStillSucceeds ==
    [][\A p \in GenProcs :
          /\ (gen[p].pc = "persist" /\ gen'[p].pc # "persist") =>
                /\ gen'[p].pc = "use"
                /\ gen'[p].err = "nil"
                /\ gen'[p].coverURL \in {"local", "provider"}
          /\ (gen[p].coverURL = "provider" /\ gen'[p].pc # "idle") =>
                gen'[p].coverURL = "provider"
          /\ (gen'[p].pc = "done" /\ gen'[p].coverURL = "provider") =>
                (gen'[p].status = 200 /\ gen'[p].err = "nil")]_vars

\* a polled job succeeded, the result could not be stored, and the request
\* has been answered 200 with the provider's URL
C23_Witness ==
    \E p \in GenProcs :
        /\ gen[p].pc = "done"
        /\ gen[p].status = 200
        /\ gen[p].polls > 0
        /\ gen[p].coverURL = "provider"

\* C24: a generate-cover request is answered 402 if and only if the gate
\* found the account without credits: the step that applies the gate to
\* the row CheckGenerationLimit holds answers 402 exactly when that row has
\* neither a free nor a paid generation, and no other step of the handler
\* produces a 402.
C24_PaymentRequiredIffGateClosed ==
    [][\A p \in GenProcs :
          LET seen  == IF gen[p].pc = "check_save" THEN gen[p].user
                       ELSE RowOf(gen[p].uid)
              gated == \/ gen[p].pc = "check_save" /\ gen'[p].pc # "check_save"
                       \/ /\ gen[p].pc = "check"
                          /\ gen'[p].pc \notin {"check", "check_save"}
                          /\ seen.exists
          IN  /\ gated =>
                   /\ gen'[p].status = 402 <=> (seen.free = 0 /\ seen.paid = 0)
                   /\ gen'[p].status = 402 => gen'[p].pc = "done"
                   /\ gen'[p].status # 402 => gen'[p].pc = "determine"
              /\ (~gated /\ gen'[p].status = 402) => gen[p].status = 402]_vars

\* after an earlier request of the run, a request has been refused by the
\* gate with nothing remaining
C24_Witness ==
    /\ \E p \in GenProcs :
          gen[p].pc = "done" /\ gen[p].status = 402 /\ gen[p].remaining = 0
    /\ requests >= 2

\* C25: when handleGenerate receives a 402 the packages dialog is open
\* afterwards and no alert has been shown; when it receives any other
\* failure, or no answer, one alert has been shown and the dialog is as it
\* was; either way isGenerating is false again.
C25_ClientOn402 ==
    [][(app.isGenerating /\ ~app'.isGenerating /\ app'.response.status # 200) =>
          IF app'.response.status = 402
          THEN app'.showPackages /\ app'.alerts = app.alerts
          ELSE app'.alerts = app.alerts + 1
               /\ app'.showPackages = app.showPackages]_vars

\* after an earlier failure that raised an alert, a 402 has opened the
\* dialog without another alert
C25_Witness ==
    /\ ~app.isGenerating
    /\ app.response.status = 402
    /\ app.showPackages
    /\ app.alerts = 1
    /\ requests = 2

\* C26: GetOrCreateUser for an id without a row creates the row with one
\* free generation, no paid generation and the zero reset time; for an id
\* with a row, when that row is still as the call read it (no other writer
\* of the account came in between), the row's free count, reset time and
\* paid count are left as they were.  No call touches another account.
C26_CreateAndRefresh ==
    [][\A l \in LoginProcs :
          LET u == login[l].uid IN
          (login[l].pc \in {"create", "save"} /\ login'[l].pc = "done") =>
             /\ \A v \in UserIds \ {u} : users'[v] = users[v]
             /\ (login[l].pc = "create" /\ login'[l].status = 307) =>
                   /\ ~users[u].exists
                   /\ users'[u] = [exists |-> TRUE, free |-> 1, last |-> 0,
                                   paid |-> 0]
             /\ (login[l].pc = "create" /\ login'[l].status # 307) =>
                   users'[u] = users[u]
             /\ (login[l].pc = "save" /\ login[l].user = users[u]) =>
                   users'[u] = users[u]]_vars

\* an account whose free generation of the day is used has signed in
\* again, with no request in progress, and its row is as before
C26_Witness ==
    \E l \in LoginProcs :
        /\ login[l].pc = "done"
        /\ login[l].user.exists
        /\ login[l].user.free = 0
        /\ login[l].user.last = today
        /\ users[login[l].uid] = login[l].user
        /\ \A p \in GenProcs : gen[p].pc = "idle"
        /\ Len(generations) = 1

\* C27 (as claimed): the image endpoint answers 200 with the staged bytes
\* exactly when the key of the id asked for is in Redis (set, not deleted,
\* not expired), and 404 exactly when it is not.
C27_ServedExactlyWhileStaged ==
    [][(image.pc = "idle" /\ image'.pc = "done") =>
          /\ image'.status = 200 <=> image'.id \in DOMAIN redis
          /\ image'.status = 404 <=> image'.id \notin DOMAIN redis]_vars

\* C27 (amended): when the Redis Get answers, the endpoint returns 200
\* exactly when the key of the id asked for is in Redis and 404 exactly
\* when it is not; when the Get fails with another error it returns 500,
\* whether the key is there or not.
C27_ServedWhileStagedUnlessGetFails ==
    [][(image.pc = "idle" /\ image'.pc = "done") =>
          /\ image'.status = 500 <=> image'.got = "error"
          /\ image'.status = 200 <=>
                (image'.id \in DOMAIN redis /\ image'.got # "error")
          /\ image'.status = 404 <=>
                (image'.id \notin DOMAIN redis /\ image'.got # "error")]_vars

\* the image of a request that is polling has been served, some time after
\* it was staged and before its key expires
C27_Witness ==
    /\ image.pc = "done"
    /\ image.status = 200
    /\ image.id = "g1"
    /\ gen["g1"].pc = "poll"
    /\ "g1" \in DOMAIN redis
    /\ redis["g1"].age > 0

C29_RemovedBeforePersistence ==
    \A p \in GenProcs :
        (gen[p].pc \in {"persist", "use", "use_save", "record"} /\ gen[p].puts > 0) =>
            /\ p \notin DOMAIN redis
            /\ gen[p].dels = gen[p].puts

\* a request whose job succeeded at once is about to persist the result:
\* its image, staged a moment ago, is already gone
C29_Witness ==
    /\ gen["g1"].pc = "persist"
    /\ gen["g1"].puts = 1
    /\ gen["g1"].polls = 1
    /\ gen["g1"].dels = 1
    /\ DOMAIN redis = {}

\* C30: when UseGeneration fails after a successful generation, the
\* request is still answered 200 with the cover: the settlement step sets
\* no error and keeps the URL, and a request that recorded its generation
\* without a debit has answered 200 with that URL.
C30_SettlementFailureStillSucceeds ==
    [][\A p \in GenProcs :
          /\ (gen[p].pc = "use" /\ gen'[p].pc # "use") =>
                /\ gen'[p].pc \in {"use_save", "record"}
                /\ gen'[p].err = "nil"
                /\ gen'[p].coverURL = gen[p].coverURL
          /\ (gen[p].pc = "record" /\ gen'[p].pc # "record") =>
                /\ gen'[p].pc = "done"
                /\ gen'[p].status = 200
                /\ gen'[p].err = "nil"
                /\ gen'[p].coverURL = gen[p].coverURL
                /\ gen'[p].coverURL \in {"local", "provider"}
          /\ (gen'[p].pc = "done" /\ gen'[p].records > gen'[p].debits) =>
                gen'[p].status = 200]_vars

\* two requests of one account passed the gate on its single free
\* generation; one settled it, the other could not and has still answered
\* 200 with its cover
C30_Witness ==
    \E p \in GenProcs :
        /\ gen[p].pc = "done"
        /\ gen[p].status = 200
        /\ gen[p].debits = 0
        /\ gen[p].records = 1
        /\ gen[p].coverURL = "local"
        /\ Len(generations) = 2

\* C31: every answer of the status query that reports the ledger is
\* consistent: generations_remaining is free_generations_left plus
\* paid_generations, and can_generate is true exactly when that sum is
\* positive.
C31_StatusConsistent ==
    (me.pc = "done" /\ me.ledger) =>
        /\ me.generations_remaining =
              me.free_generations_left + me.paid_generations
        /\ me.can_generate <=>
              (me.free_generations_left + me.paid_generations > 0)

\* C32: the status of a failed generate-cover request is a fixed function
\* of the failure: a failure of the provider to authenticate the key, or a
\* lack of balance at the provider, is answered 401 and nothing else is;
\* every other error of the generation is answered 500; 402 and 400 are
\* answered without a generation error, by the gate and by the check of
\* the provider name.
C32_StatusOfFailure ==
    \A p \in GenProcs :
        LET AuthFailures == {"authentication failed",
                             "insufficient account balance",
                             "OpenAI API error (status: 401)"}
        IN  gen[p].pc = "done" =>
               /\ gen[p].err \in AuthFailures <=> gen[p].status = 401
               /\ (gen[p].err \notin AuthFailures /\ gen[p].err # "nil") =>
                     gen[p].status = 500
               /\ gen[p].status \in {400, 402} => gen[p].err = "nil"

\* C33: a request served by OpenAI makes one call to the provider and no
\* poll, and never writes or deletes a Redis key; when that call succeeds
\* the request is answered 200 with one credit debited and one generation
\* record written, as on the polled path.  One request runs at a time.
C33_SingleShotProvider ==
    \A p \in GenProcs :
        /\ gen[p].provider = "openai" =>
              /\ gen[p].puts = 0 /\ gen[p].dels = 0 /\ gen[p].polls = 0
              /\ gen[p].submits <= 1
              /\ gen[p].submits = 1 <=> gen[p].pc # "openai"
              /\ p \notin DOMAIN redis
        /\ (gen[p].pc = "done" /\ gen[p].submits = 1 /\ gen[p].puts = 0
               /\ gen[p].err = "nil") =>
              /\ gen[p].status = 200
              /\ gen[p].polls = 0 /\ gen[p].dels = 0
              /\ gen[p].debits = 1
              /\ gen[p].records = 1
              /\ p \notin DOMAIN redis

\* a request served by OpenAI has been answered 200: one call, no poll,
\* nothing staged, one debit and one record
C33_Witness ==
    /\ gen["g1"].pc = "done"
    /\ gen["g1"].status = 200
    /\ gen["g1"].submits = 1
    /\ gen["g1"].puts = 0
    /\ gen["g1"].polls = 0
    /\ gen["g1"].debits = 1
    /\ gen["g1"].records = 1
    /\ Len(generations) = 1
    /\ DOMAIN redis = {}

\* C34: a notification of success for an invoice id the gateway has issued
\* is never answered 404, whenever it arrives: in particular not while the
\* payment-create request that obtained the invoice id has yet to save it
\* on its transaction.
C34_IssuedOrderAlwaysFound ==
    [][\A w \in HookProcs :
          (/\ hook[w].pc = "idle"
           /\ hook'[w].pc = "done"
           /\ hook'[w].status = 404
           /\ hook'[w].notified \in {"success", "completed"}) =>
             /\ \A c \in PayProcs :
                   pay[c].pc = "save" => pay[c].row.order # hook'[w].order
             /\ \A t \in TxnIds : transactions[t].order # hook'[w].order]_vars

\* C35: a notification goes on to change a transaction only when its
\* order_id is the invoice id the gateway issued for that transaction; a
\* notification without an order_id matches no transaction.
C35_OnlyTheIssuedOrderMatches ==
    [][\A w \in HookProcs :
          (hook[w].pc = "idle" /\ hook'[w].pc = "save") =>
             /\ hook'[w].order # 0
             /\ hook'[w].order = OrderRef(hook'[w].txn)]_vars

\* C36: whenever no webhook delivery is between its lookup and its answer,
\* a transaction has status "completed" only if AddPaidGenerations has added
\* its package count to the owner's paid_generations at least once, also
\* when AddPaidGenerations returned an error (SpecPayFault).
C36_CompletedOnlyIfCredited ==
    (\A w \in HookProcs : hook[w].pc \in {"idle", "done"}) =>
        \A t \in TxnIds :
            transactions[t].status = "completed" => credits[t] >= 1

\* C37: a generate-cover request without a signed-in session runs under the
\* id "anonymous", which has no account: it is answered by the limit check
\* (500, the check having failed) and never stages an image, calls a
\* provider, settles a credit or writes a generation, whatever the other
\* request in flight does.
C37_AnonymousStopsAtTheGate ==
    /\ \A p \in GenProcs :
          (gen[p].pc # "idle" /\ gen[p].uid = Anonymous) =>
             /\ gen[p].pc \in {"check", "done"}
             /\ gen[p].pc = "done" => gen[p].status = 500
             /\ gen[p].puts = 0 /\ gen[p].submits = 0 /\ gen[p].polls = 0
             /\ gen[p].debits = 0 /\ gen[p].records = 0
    /\ \A n \in DOMAIN generations : generations[n].user # Anonymous

\* an anonymous request has been answered 500 while a signed-in request is
\* past the gate
C37_Witness ==
    \E p, q \in GenProcs :
        /\ gen[p].pc = "done" /\ gen[p].uid = Anonymous /\ gen[p].status = 500
        /\ gen[q].uid # Anonymous /\ gen[q].pc \notin {"idle", "check", "done"}

\* C38: a request whose provider succeeded and whose result could not be
\* stored locally is settled like a full success: it is answered 200 with
\* exactly one credit debited and one generation record written, the record
\* being the request's own and holding the provider's result URL.  One
\* request runs at a time.
C38_DegradedSuccessSettled ==
    \A p \in GenProcs :
        (gen[p].pc = "done" /\ gen[p].coverURL = "provider") =>
           /\ gen[p].status = 200
           /\ gen[p].debits = 1
           /\ gen[p].records = 1
           /\ Len(generations) >= 1
           /\ generations[Len(generations)].user = gen[p].uid
           /\ generations[Len(generations)].url = "provider"

\* an OpenAI result that could not be stored: the request has answered
\* with the provider's URL after one debit and one record
C38_Witness ==
    \E p \in GenProcs :
        /\ gen[p].pc = "done"
        /\ gen[p].coverURL = "provider"
        /\ gen[p].polls = 0
        /\ gen[p].submits = 1
        /\ gen[p].debits = 1
        /\ gen[p].records = 1

\* C39: the generate request the page sends while an account is signed in
\* reaches the handler under that account's id, as the purchase request
\* does.
C39_GenerateCarriesSession ==
    [][/\ (app.user # Anonymous /\ gen["g1"].pc = "idle" /\ gen'["g1"].pc = "check")
            => gen'["g1"].uid = app.user
       /\ \A c \in PayProcs :
            (app.user # Anonymous /\ pay[c].pc = "idle" /\ pay'[c].pc # "idle")
               => pay'[c].uid = app.user]_vars

====
